---- MODULE Spec2Model ----
(***************************************************************************)
(* A state-machine model of DrawRenderer (client/src/draw/types.ts),       *)
(* the browser-side compositor for the Plan 9 /dev/draw command stream.    *)
(*                                                                         *)
(* The state is the renderer's fields: the image table, the font table,    *)
(* the canvases behind the images, the sticky compositing operator and the *)
(* refresh accumulator, plus the position of the processCommands loop.     *)
(* One action per opcode handler; the host's resize call is an action too. *)
(***************************************************************************)
EXTENDS Integers, Sequences, FiniteSets, TLC

VARIABLES
    images,          \* Map<number, ClientImage>
    fonts,           \* Map<number, FontInfo>
    canvases,        \* canvas key -> [w, h, px]; key 0 is screenCanvas
    currentOp,       \* sticky DrawOp
    refreshRects,    \* pending refresh rectangles
    onFlush,         \* whether the host installed the flush callback
    useFontFallback, \* public flag of the renderer
    phase,           \* "idle" | "running": inside processCommands or not
    remaining,       \* commands of the current buffer not yet dispatched
    responses,       \* response bytes accumulated by the current call
    result,          \* outcome of the latest call: "none" | "returned" | "threw"
    returned,        \* {byte slice the latest call returned}, NoValue if none
    emitted,         \* {rectangle the latest flush handed to onFlush}, NoValue if none
    last,            \* history: the command dispatched most recently, its
                     \* parameters, the operator in force when it started, and
                     \* the operator of a setop no drawing opcode has followed
    refreshLog,      \* history: every addRefresh call since the latest flush
    sinceFlush,      \* history: [flushed, drew] since the latest flush
    reader,          \* a DrawReader: underlying array, view, read offset
    readOut,         \* history: outcome of the latest read or decode
    builder,         \* a DrawBuffer and the point list handed to the builder
    client,          \* a Client9P with its FidPool, and the server it talks to
    transport,       \* the Transport, its WebSocket and the bytes on their way
    device           \* the ConsDevice and the DrawDevice on top of the client

vars == <<images, fonts, canvases, currentOp, refreshRects, onFlush,
          useFontFallback, phase, remaining, responses, result,
          returned, emitted, last, refreshLog, sinceFlush,
          reader, readOut, builder, client, transport, device>>

rendererVars == <<images, fonts, canvases, currentOp, refreshRects, onFlush,
                  useFontFallback, phase, remaining, responses, result,
                  returned, emitted, last, refreshLog, sinceFlush>>

codecVars == <<reader, readOut, builder>>

clientVars == <<client, transport, device>>

linkVars == <<transport, device>>

storeVars == <<images, fonts, canvases, currentOp, refreshRects>>

\* a value that is absent: returned and emitted hold a set of at most one value
NoValue == {}

----------------------------------------------------------------------------
(* Bounds of the model *)

\* longest command buffer handed to processCommands, in commands
MaxCmds == 2
\* longest refresh accumulator explored
MaxRefresh == 2
\* the connections a transport makes
MaxConns == 2
\* longest buffer handed to ConsDevice.write or DrawDevice.sendCommands
MaxData == 3
\* the readLoop calls alive at a time
MaxLoops == 4

----------------------------------------------------------------------------
(* Constants of draw/types.ts *)

SoverD == 11
Channel_XRGB32 == 1753778312
Channel_GREY8 == 56

Channel_RGB24 == 8947848

\* DrawOp values with an entry in COMPOSITE_OPS
COMPOSITE_OPS == [o \in 0..11 |->
    CASE o = 0 -> "destination-out"
      [] o = 8 -> "source-in"
      [] o = 4 -> "destination-in"
      [] o = 2 -> "source-out"
      [] o = 1 -> "destination-out"
      [] o = 10 -> "copy"
      [] o = 11 -> "source-over"
      [] o = 9 -> "source-atop"
      [] o = 3 -> "xor"
      [] o = 5 -> "destination-over"
      [] o = 7 -> "destination-over"
      [] o = 6 -> "destination-atop"]

\* COMPOSITE_OPS[op] || 'source-over'
CompositeOf(op) == IF op \in DOMAIN COMPOSITE_OPS THEN COMPOSITE_OPS[op] ELSE "source-over"

----------------------------------------------------------------------------
(* Points and rectangles *)

Pt(x, y) == [x |-> x, y |-> y]
Rect(a, b, c, d) == [minX |-> a, minY |-> b, maxX |-> c, maxY |-> d]

Min2(a, b) == IF a < b THEN a ELSE b
Max2(a, b) == IF a > b THEN a ELSE b

rectWidth(r) == r.maxX - r.minX
rectHeight(r) == r.maxY - r.minY
rectIsEmpty(r) == r.minX >= r.maxX \/ r.minY >= r.maxY

\* a inside b, edge by edge
RectIn(a, b) ==
    /\ a.minX >= b.minX /\ a.minY >= b.minY
    /\ a.maxX <= b.maxX /\ a.maxY <= b.maxY

----------------------------------------------------------------------------
(* Response encoding *)

\* v & 0xFF, (v >> 8) & 0xFF, ...: the shifts are arithmetic, \div rounds down
encodeLong(v) ==
    << v % 256, (v \div 256) % 256, (v \div 65536) % 256, (v \div 16777216) % 256 >>

encodePoint(p) == encodeLong(p.x) \o encodeLong(p.y)

----------------------------------------------------------------------------
(* DrawBuffer and DrawReader (client/src/draw/protocol.ts).                 *)
(* A reader is [buf, off, len, offset]: the underlying array, the view      *)
(* DataView(data.buffer, data.byteOffset, data.byteLength) and the read     *)
(* offset.  A read yields [ok, v, r]: whether it returned, the value, and   *)
(* the reader afterwards; ok = FALSE is a RangeError.                       *)

NoReader == [buf |-> <<>>, off |-> 0, len |-> 0, offset |-> 0]

NoBuilder == [data |-> <<>>, pts |-> <<>>]

\* new DrawReader(data), data being bytes off+1 .. off+len of buf
DrawReader(buf, off, len) == [buf |-> buf, off |-> off, len |-> len, offset |-> 0]

ReaderRemaining(r) == r.len - r.offset

\* the DataView accepts a read of n bytes at the offset only inside the view
InView(r, n) == r.offset >= 0 /\ r.offset + n <= r.len

\* byte i after the read offset, taken from the underlying array
RawByte(r, i) == r.buf[r.off + r.offset + i + 1]

Advance(r, n) == [r EXCEPT !.offset = @ + n]

RangeError(r) == [ok |-> FALSE, v |-> 0, r |-> r]

\* getUint8(this.offset++): the offset moves before the DataView checks it
readByte(r) ==
    IF InView(r, 1) THEN [ok |-> TRUE, v |-> RawByte(r, 0), r |-> Advance(r, 1)]
    ELSE RangeError(Advance(r, 1))

readShort(r) ==
    IF InView(r, 2)
    THEN [ok |-> TRUE, v |-> RawByte(r, 0) + 256 * RawByte(r, 1), r |-> Advance(r, 2)]
    ELSE RangeError(r)

\* getInt32(offset, true): little-endian, two's complement
readLong(r) ==
    IF InView(r, 4)
    THEN [ok |-> TRUE,
          v |-> RawByte(r, 0) + 256 * RawByte(r, 1) + 65536 * RawByte(r, 2)
                + 16777216 * (IF RawByte(r, 3) >= 128 THEN RawByte(r, 3) - 256
                              ELSE RawByte(r, 3)),
          r |-> Advance(r, 4)]
    ELSE RangeError(r)

\* k consecutive readLong calls
RECURSIVE readLongs(_, _)
readLongs(r, k) ==
    IF k = 0 THEN [ok |-> TRUE, v |-> <<>>, r |-> r]
    ELSE LET h == readLong(r)
             t == readLongs(h.r, k - 1)
         IN  IF ~h.ok THEN RangeError(h.r)
             ELSE IF ~t.ok THEN RangeError(t.r)
             ELSE [ok |-> TRUE, v |-> <<h.v>> \o t.v, r |-> t.r]

readPoint(r) ==
    LET l == readLongs(r, 2)
    IN  IF l.ok THEN [ok |-> TRUE, v |-> Pt(l.v[1], l.v[2]), r |-> l.r] ELSE l

readRect(r) ==
    LET l == readLongs(r, 4)
    IN  IF l.ok THEN [ok |-> TRUE, v |-> Rect(l.v[1], l.v[2], l.v[3], l.v[4]), r |-> l.r]
        ELSE l

\* new Uint8Array(view.buffer, view.byteOffset + offset, n) is checked against
\* the underlying array, not against the view
readBytes(r, n) ==
    IF r.off + r.offset + n <= Len(r.buf) /\ r.off + r.offset <= Len(r.buf)
    THEN [ok |-> TRUE,
          v |-> [i \in 1..n |-> RawByte(r, i - 1)],
          r |-> Advance(r, n)]
    ELSE RangeError(r)

\* a length byte, then that many bytes handed to the TextDecoder; the value
\* kept here is the byte run the string is decoded from
readString(r) ==
    LET len == readByte(r)
    IN  IF len.ok THEN readBytes(len.r, len.v) ELSE len

\* three-byte form: 23 bits, sign-extended from bit 22;
\* one-byte form: a 7-bit delta, sign-extended from bit 6, added to old
readCoord_unsigned(r, old) ==
    LET b  == readByte(r)
        b1 == readByte(b.r)
        b2 == readByte(b1.r)
    IN  IF ~b.ok THEN b
        ELSE IF b.v >= 128
        THEN IF ~b1.ok THEN b1
             ELSE IF ~b2.ok THEN b2
             ELSE [ok |-> TRUE, v |-> (b.v % 128) + 128 * b1.v + 32768 * b2.v, r |-> b2.r]
        ELSE [ok |-> TRUE,
              v |-> (IF b.v >= 64 THEN b.v - 128 ELSE b.v) + old,
              r |-> b.r]

readCoord(r, old) ==
    LET b  == readByte(r)
        b1 == readByte(b.r)
        b2 == readByte(b1.r)
        x  == (b.v % 128) + 128 * b1.v + 32768 * b2.v
    IN  IF ~b.ok THEN b
        ELSE IF b.v >= 128
        THEN IF ~b1.ok THEN b1
             ELSE IF ~b2.ok THEN b2
             ELSE [ok |-> TRUE,
                   v |-> IF x >= 4194304 THEN x - 8388608 ELSE x,
                   r |-> b2.r]
        ELSE [ok |-> TRUE,
              v |-> (IF b.v >= 64 THEN b.v - 128 ELSE b.v) + old,
              r |-> b.r]

writeByte(v) == << v % 256 >>

writeShort(v) == << v % 256, (v \div 256) % 256 >>

writeLong(v) ==
    << v % 256, (v \div 256) % 256, (v \div 65536) % 256, (v \div 16777216) % 256 >>

writePoint(p) == writeLong(p.x) \o writeLong(p.y)

\* v & 0x7F is v mod 128 and v >> k is the floor of v / 2^k, also below zero
writeCoord(v, old) ==
    LET delta == v - old
    IN  IF delta >= -64 /\ delta < 64
        THEN writeByte(delta % 128)
        ELSE writeByte(128 + (v % 128))
             \o writeByte((v \div 128) % 256)
             \o writeByte((v \div 32768) % 256)

\* the loop over pts of the poly and fillPoly builders
RECURSIVE writePoints(_, _, _)
writePoints(pts, ox, oy) ==
    IF pts = <<>> THEN <<>>
    ELSE writeCoord(pts[1].x, ox) \o writeCoord(pts[1].y, oy)
         \o writePoints(Tail(pts), pts[1].x, pts[1].y)

DrawCmd_Poly == 112

DrawCmd_FillPoly == 80

\* DrawProtocol.poly
poly(dstId, pts, end0, end1, radius, srcId, sp) ==
    writeByte(DrawCmd_Poly) \o writeLong(dstId) \o writeShort(Len(pts) - 1)
    \o writeLong(end0) \o writeLong(end1) \o writeLong(radius) \o writeLong(srcId)
    \o writePoint(sp) \o writePoints(pts, 0, 0)

\* DrawProtocol.fillPoly
fillPoly(dstId, pts, wind, srcId, sp) ==
    writeByte(DrawCmd_FillPoly) \o writeLong(dstId) \o writeShort(Len(pts) - 1)
    \o writeLong(wind) \o writeLong(0) \o writeLong(0) \o writeLong(srcId)
    \o writePoint(sp) \o writePoints(pts, 0, 0)

\* a variant of the point loop with one seed shared by both axes
RECURSIVE readPoints_oneSeed(_, _, _, _, _)
readPoints_oneSeed(r, count, ox, oy, acc) ==
    IF count = 0 THEN [ok |-> TRUE, v |-> acc, r |-> r]
    ELSE LET x == readCoord(r, oy)
             y == readCoord(x.r, x.v)
         IN  IF ~x.ok THEN x
             ELSE IF ~y.ok THEN y
             ELSE readPoints_oneSeed(y.r, count - 1, x.v, y.v, Append(acc, Pt(x.v, y.v)))

\* the point loop of cmdPoly and cmdFillPoly: count pairs of delta-coords
RECURSIVE readPoints(_, _, _, _, _)
readPoints(r, count, ox, oy, acc) ==
    IF count = 0 THEN [ok |-> TRUE, v |-> acc, r |-> r]
    ELSE LET x == readCoord(r, ox)
             y == readCoord(x.r, oy)
         IN  IF ~x.ok THEN x
             ELSE IF ~y.ok THEN y
             ELSE readPoints(y.r, count - 1, x.v, y.v, Append(acc, Pt(x.v, y.v)))

\* the parameters cmdPoly reads: dstid, n, end0, end1, radius, srcid, sp, points
readPolyParams(r) ==
    LET dstId == readLong(r)
        n     == readShort(dstId.r)
        rest  == readLongs(n.r, 6)
    IN  IF ~dstId.ok THEN dstId
        ELSE IF ~n.ok THEN n
        ELSE IF ~rest.ok THEN rest
        ELSE readPoints(rest.r, n.v + 1, 0, 0, <<>>)

\* the parameters cmdFillPoly reads: dstid, n, wind, two ignored longs, srcid, sp
readFillPolyParams(r) ==
    LET dstId == readLong(r)
        n     == readShort(dstId.r)
        rest  == readLongs(n.r, 6)
    IN  IF ~dstId.ok THEN dstId
        ELSE IF ~n.ok THEN n
        ELSE IF ~rest.ok THEN rest
        ELSE readPoints(rest.r, n.v + 1, 0, 0, <<>>)

----------------------------------------------------------------------------
(* The DrawProtocol builders (client/src/draw/protocol.ts) and the          *)
(* parameters processCommand's handlers read (client/src/draw/types.ts).    *)
(* A command handed to a builder is a record: cmd names the builder, the    *)
(* other fields are its arguments.  A string is kept as its UTF-8 bytes.    *)

DrawCmd ==
    [Alloc |-> 98, Free |-> 102, AllocScreen |-> 65, FreeScreen |-> 70,
     Draw |-> 100, Line |-> 76, Ellipse |-> 101, EllipseFill |-> 69, Arc |-> 97,
     Poly |-> DrawCmd_Poly, FillPoly |-> DrawCmd_FillPoly,
     String |-> 115, StringBg |-> 120,
     Load |-> 121, LoadCompressed |-> 89, Unload |-> 114,
     Origin |-> 111, SetClip |-> 99, SetOp |-> 79, Flush |-> 118,
     NameImage |-> 78, NameImageLocal |-> 110, InitFont |-> 105, LoadChar |-> 108,
     Top |-> 116, Bottom |-> 66, Init |-> 73]

writeRect(r) == writeLong(r.minX) \o writeLong(r.minY) \o writeLong(r.maxX) \o writeLong(r.maxY)

\* the length byte is bytes.length & 0xFF; every byte of the string follows
writeString(bytes) == writeByte(Len(bytes)) \o [i \in 1 .. Len(bytes) |-> bytes[i] % 256]

writeFlag(b) == writeByte(IF b THEN 1 ELSE 0)

RECURSIVE writeShorts(_)
writeShorts(l) == IF l = <<>> THEN <<>> ELSE writeShort(Head(l)) \o writeShorts(Tail(l))

RECURSIVE writeLongs(_)
writeLongs(l) == IF l = <<>> THEN <<>> ELSE writeLong(Head(l)) \o writeLongs(Tail(l))

\* the bytes each builder returns
DrawProtocol(c) ==
    CASE c.cmd = "alloc" ->
           writeByte(DrawCmd.Alloc) \o writeLong(c.id) \o writeLong(c.screenId)
           \o writeByte(c.refresh) \o writeLong(c.chan) \o writeFlag(c.repl)
           \o writeRect(c.r) \o writeRect(c.clipr) \o writeLong(c.color)
      [] c.cmd = "free" -> writeByte(DrawCmd.Free) \o writeLong(c.id)
      [] c.cmd = "draw" ->
           writeByte(DrawCmd.Draw) \o writeLong(c.dstId) \o writeLong(c.srcId)
           \o writeLong(c.maskId) \o writeRect(c.r) \o writePoint(c.sp) \o writePoint(c.mp)
      [] c.cmd = "line" ->
           writeByte(DrawCmd.Line) \o writeLong(c.dstId) \o writePoint(c.p0) \o writePoint(c.p1)
           \o writeLong(c.end0) \o writeLong(c.end1) \o writeLong(c.radius)
           \o writeLong(c.srcId) \o writePoint(c.sp)
      [] c.cmd = "ellipse" ->
           writeByte(DrawCmd.Ellipse) \o writeLong(c.dstId) \o writeLong(c.srcId)
           \o writePoint(c.center) \o writeLong(c.a) \o writeLong(c.b) \o writeLong(c.thick)
           \o writePoint(c.sp) \o writeLong(c.alpha) \o writeLong(c.phi)
      [] c.cmd = "ellipseFill" ->
           writeByte(DrawCmd.EllipseFill) \o writeLong(c.dstId) \o writeLong(c.srcId)
           \o writePoint(c.center) \o writeLong(c.a) \o writeLong(c.b) \o writeLong(0)
           \o writePoint(c.sp) \o writeLong(c.alpha) \o writeLong(c.phi)
      [] c.cmd = "arc" ->
           writeByte(DrawCmd.Arc) \o writeLong(c.dstId) \o writeLong(c.srcId)
           \o writePoint(c.center) \o writeLong(c.a) \o writeLong(c.b) \o writeLong(c.thick)
           \o writePoint(c.sp) \o writeLong(c.alpha) \o writeLong(c.phi)
      [] c.cmd = "poly" -> poly(c.dstId, c.pts, c.end0, c.end1, c.radius, c.srcId, c.sp)
      [] c.cmd = "fillPoly" -> fillPoly(c.dstId, c.pts, c.wind, c.srcId, c.sp)
      [] c.cmd = "string" ->
           writeByte(DrawCmd.String) \o writeLong(c.dstId) \o writeLong(c.srcId)
           \o writeLong(c.fontId) \o writePoint(c.p) \o writeRect(c.clipr) \o writePoint(c.sp)
           \o writeShort(Len(c.indices)) \o writeShorts(c.indices)
      [] c.cmd = "stringBg" ->
           writeByte(DrawCmd.StringBg) \o writeLong(c.dstId) \o writeLong(c.srcId)
           \o writeLong(c.fontId) \o writePoint(c.p) \o writeRect(c.clipr) \o writePoint(c.sp)
           \o writeShort(Len(c.indices)) \o writeLong(c.bgId) \o writePoint(c.bgp)
           \o writeShorts(c.indices)
      [] c.cmd = "load" ->
           writeByte(DrawCmd.Load) \o writeLong(c.id) \o writeRect(c.r) \o c.data
      [] c.cmd = "loadCompressed" ->
           writeByte(DrawCmd.LoadCompressed) \o writeLong(c.id) \o writeRect(c.r) \o c.data
      [] c.cmd = "unload" -> writeByte(DrawCmd.Unload) \o writeLong(c.id) \o writeRect(c.r)
      [] c.cmd = "flush" -> << DrawCmd.Flush >>
      [] c.cmd = "origin" ->
           writeByte(DrawCmd.Origin) \o writeLong(c.id) \o writePoint(c.log) \o writePoint(c.scr)
      [] c.cmd = "setClip" ->
           writeByte(DrawCmd.SetClip) \o writeLong(c.dstId) \o writeFlag(c.repl)
           \o writeRect(c.clipr)
      [] c.cmd = "setOp" -> writeByte(DrawCmd.SetOp) \o writeByte(c.op)
      [] c.cmd = "allocScreen" ->
           writeByte(DrawCmd.AllocScreen) \o writeLong(c.id) \o writeLong(c.imageId)
           \o writeLong(c.fillId) \o writeFlag(c.isPublic)
      [] c.cmd = "freeScreen" -> writeByte(DrawCmd.FreeScreen) \o writeLong(c.id)
      [] c.cmd = "top" ->
           writeByte(DrawCmd.Top) \o writeShort(Len(c.ids)) \o writeLongs(c.ids)
      [] c.cmd = "bottom" ->
           writeByte(DrawCmd.Bottom) \o writeShort(Len(c.ids)) \o writeLongs(c.ids)
      [] c.cmd = "nameImage" ->
           writeByte(DrawCmd.NameImage) \o writeLong(c.id) \o writeFlag(c.inFlag)
           \o writeString(c.name)
      [] c.cmd = "nameImageLocal" ->
           writeByte(DrawCmd.NameImageLocal) \o writeLong(c.id) \o writeString(c.name)
      [] c.cmd = "initFont" ->
           writeByte(DrawCmd.InitFont) \o writeLong(c.fontId) \o writeLong(c.nchars)
           \o writeByte(c.ascent)
      [] c.cmd = "loadChar" ->
           writeByte(DrawCmd.LoadChar) \o writeLong(c.fontId) \o writeLong(c.srcId)
           \o writeShort(c.index) \o writeRect(c.r) \o writePoint(c.p)
           \o writeByte(c.left) \o writeByte(c.width)
      [] c.cmd = "init" -> << DrawCmd.Init >>

\* the opcode processCommand switches on for the command of a builder
OpcodeOf(cmd) ==
    CASE cmd = "alloc" -> DrawCmd.Alloc [] cmd = "free" -> DrawCmd.Free
      [] cmd = "draw" -> DrawCmd.Draw [] cmd = "line" -> DrawCmd.Line
      [] cmd = "ellipse" -> DrawCmd.Ellipse [] cmd = "ellipseFill" -> DrawCmd.EllipseFill
      [] cmd = "arc" -> DrawCmd.Arc [] cmd = "poly" -> DrawCmd.Poly
      [] cmd = "fillPoly" -> DrawCmd.FillPoly [] cmd = "string" -> DrawCmd.String
      [] cmd = "stringBg" -> DrawCmd.StringBg [] cmd = "load" -> DrawCmd.Load
      [] cmd = "loadCompressed" -> DrawCmd.LoadCompressed [] cmd = "unload" -> DrawCmd.Unload
      [] cmd = "flush" -> DrawCmd.Flush [] cmd = "origin" -> DrawCmd.Origin
      [] cmd = "setClip" -> DrawCmd.SetClip [] cmd = "setOp" -> DrawCmd.SetOp
      [] cmd = "allocScreen" -> DrawCmd.AllocScreen [] cmd = "freeScreen" -> DrawCmd.FreeScreen
      [] cmd = "top" -> DrawCmd.Top [] cmd = "bottom" -> DrawCmd.Bottom
      [] cmd = "nameImage" -> DrawCmd.NameImage
      [] cmd = "nameImageLocal" -> DrawCmd.NameImageLocal
      [] cmd = "initFont" -> DrawCmd.InitFont [] cmd = "loadChar" -> DrawCmd.LoadChar
      [] cmd = "init" -> DrawCmd.Init

\* getUint32(offset, true)
readULong(r) ==
    IF InView(r, 4)
    THEN [ok |-> TRUE,
          v |-> RawByte(r, 0) + 256 * RawByte(r, 1) + 65536 * RawByte(r, 2)
                + 16777216 * RawByte(r, 3),
          r |-> Advance(r, 4)]
    ELSE RangeError(r)

RECURSIVE readShorts(_, _)
readShorts(r, k) ==
    IF k = 0 THEN [ok |-> TRUE, v |-> <<>>, r |-> r]
    ELSE LET h == readShort(r)
             t == readShorts(h.r, k - 1)
         IN  IF ~h.ok THEN RangeError(h.r)
             ELSE IF ~t.ok THEN RangeError(t.r)
             ELSE [ok |-> TRUE, v |-> <<h.v>> \o t.v, r |-> t.r]

\* one parameter of a handler, read with the primitive the handler uses; a
\* flag is readByte() !== 0
readField(r, kind) ==
    CASE kind = "long" -> readLong(r)
      [] kind = "ulong" -> readULong(r)
      [] kind = "short" -> readShort(r)
      [] kind = "byte" -> readByte(r)
      [] kind = "flag" -> LET b == readByte(r) IN [ok |-> b.ok, v |-> b.ok /\ b.v # 0, r |-> b.r]
      [] kind = "point" -> readPoint(r)
      [] kind = "rect" -> readRect(r)
      [] kind = "string" -> readString(r)

\* the parameters read one after the other; the first RangeError ends the handler
RECURSIVE readFields(_, _)
readFields(r, layout) ==
    IF layout = <<>> THEN [ok |-> TRUE, v |-> [f \in {} |-> 0], r |-> r]
    ELSE LET h == readField(r, layout[1][2])
             t == readFields(h.r, Tail(layout))
         IN  IF ~h.ok THEN RangeError(h.r)
             ELSE IF ~t.ok THEN RangeError(t.r)
             ELSE [ok |-> TRUE, v |-> (layout[1][1] :> h.v) @@ t.v, r |-> t.r]

\* the reads at the head of each handler, in the handler's order, under the
\* names of the builder's arguments
HandlerParams(opcode) ==
    CASE opcode = DrawCmd.Alloc ->
           << <<"id", "long">>, <<"screenId", "long">>, <<"refresh", "byte">>,
              <<"chan", "ulong">>, <<"repl", "flag">>, <<"r", "rect">>,
              <<"clipr", "rect">>, <<"color", "ulong">> >>
      [] opcode \in {DrawCmd.Free, DrawCmd.FreeScreen} -> << <<"id", "long">> >>
      [] opcode = DrawCmd.Draw ->
           << <<"dstId", "long">>, <<"srcId", "long">>, <<"maskId", "long">>,
              <<"r", "rect">>, <<"sp", "point">>, <<"mp", "point">> >>
      [] opcode = DrawCmd.Line ->
           << <<"dstId", "long">>, <<"p0", "point">>, <<"p1", "point">>,
              <<"end0", "long">>, <<"end1", "long">>, <<"radius", "long">>,
              <<"srcId", "long">>, <<"sp", "point">> >>
      [] opcode \in {DrawCmd.Ellipse, DrawCmd.EllipseFill, DrawCmd.Arc} ->
           << <<"dstId", "long">>, <<"srcId", "long">>, <<"center", "point">>,
              <<"a", "long">>, <<"b", "long">>, <<"thick", "long">>,
              <<"sp", "point">>, <<"alpha", "long">>, <<"phi", "long">> >>
      [] opcode = DrawCmd.Poly ->
           << <<"dstId", "long">>, <<"n", "short">>, <<"end0", "long">>,
              <<"end1", "long">>, <<"radius", "long">>, <<"srcId", "long">>,
              <<"sp", "point">> >>
      [] opcode = DrawCmd.FillPoly ->
           << <<"dstId", "long">>, <<"n", "short">>, <<"wind", "long">>,
              <<"e0", "long">>, <<"e1", "long">>, <<"srcId", "long">>,
              <<"sp", "point">> >>
      [] opcode = DrawCmd.String ->
           << <<"dstId", "long">>, <<"srcId", "long">>, <<"fontId", "long">>,
              <<"p", "point">>, <<"clipr", "rect">>, <<"sp", "point">>, <<"n", "short">> >>
      [] opcode = DrawCmd.StringBg ->
           << <<"dstId", "long">>, <<"srcId", "long">>, <<"fontId", "long">>,
              <<"p", "point">>, <<"clipr", "rect">>, <<"sp", "point">>, <<"n", "short">>,
              <<"bgId", "long">>, <<"bgp", "point">> >>
      [] opcode \in {DrawCmd.Load, DrawCmd.LoadCompressed, DrawCmd.Unload} ->
           << <<"id", "long">>, <<"r", "rect">> >>
      [] opcode = DrawCmd.Origin ->
           << <<"id", "long">>, <<"log", "point">>, <<"scr", "point">> >>
      [] opcode = DrawCmd.SetClip ->
           << <<"dstId", "long">>, <<"repl", "flag">>, <<"clipr", "rect">> >>
      [] opcode = DrawCmd.SetOp -> << <<"op", "byte">> >>
      [] opcode = DrawCmd.AllocScreen ->
           << <<"id", "long">>, <<"imageId", "long">>, <<"fillId", "long">>,
              <<"isPublic", "flag">> >>
      [] opcode \in {DrawCmd.Top, DrawCmd.Bottom} -> << <<"n", "short">> >>
      [] opcode = DrawCmd.NameImage ->
           << <<"id", "long">>, <<"inFlag", "byte">>, <<"name", "string">> >>
      [] opcode = DrawCmd.NameImageLocal -> << <<"id", "long">>, <<"name", "string">> >>
      [] opcode = DrawCmd.InitFont ->
           << <<"fontId", "long">>, <<"nchars", "long">>, <<"ascent", "byte">> >>
      [] opcode = DrawCmd.LoadChar ->
           << <<"fontId", "long">>, <<"srcId", "long">>, <<"index", "short">>,
              <<"r", "rect">>, <<"p", "point">>, <<"left", "byte">>, <<"width", "byte">> >>
      [] OTHER -> <<>>

\* a load that takes one byte of pixel data
readPixelData_oneByte(r) == readBytes(r, Min2(1, ReaderRemaining(r)))

\* cmdLoad: reader.readBytes(reader.remaining), for 'y' and for 'Y'
readPixelData(r) == readBytes(r, ReaderRemaining(r))

\* the array that follows the head of a handler, added to what it has read
WithArray(head, name, arr) ==
    IF arr.ok THEN [ok |-> TRUE, v |-> (name :> arr.v) @@ head.v, r |-> arr.r]
    ELSE RangeError(arr.r)

\* the array a handler reads after its head: the points of a poly, the glyph
\* indices of a string, the ids of top and bottom, the pixel data of a load
readArray(opcode, head) ==
    IF ~head.ok THEN head
    ELSE IF opcode \in {DrawCmd.Poly, DrawCmd.FillPoly}
    THEN WithArray(head, "pts", readPoints(head.r, head.v["n"] + 1, 0, 0, <<>>))
    ELSE IF opcode \in {DrawCmd.String, DrawCmd.StringBg}
    THEN WithArray(head, "indices", readShorts(head.r, head.v["n"]))
    ELSE IF opcode \in {DrawCmd.Top, DrawCmd.Bottom}
    THEN WithArray(head, "ids", readLongs(head.r, head.v["n"]))
    ELSE IF opcode \in {DrawCmd.Load, DrawCmd.LoadCompressed}
    THEN WithArray(head, "data", readPixelData(head.r))
    ELSE head

\* processCommand: the switch on the opcode and the parameters its handler
\* reads; an opcode without a case throws
processCommand(opcode, r) ==
    IF opcode \notin {DrawCmd[f] : f \in DOMAIN DrawCmd} THEN [ok |-> FALSE, v |-> 0, r |-> r]
    ELSE readArray(opcode, readFields(r, HandlerParams(opcode)))

----------------------------------------------------------------------------
(* Client9P (9p/client.ts) and FidPool (9p/fid.ts).  The client is a record: *)
(*   tagCounter, pending   the fields of Client9P; pending maps a tag to    *)
(*                         the callback registered by send, kept as         *)
(*                         [api, step, fid]                                 *)
(*   next, free            the fields of its FidPool                        *)
(*   wire                  the T-messages sent and not yet answered,        *)
(*                         [tag, kind, fid, n], n numbering the messages    *)
(*   srvFids               the fids a successful walk bound on the server   *)
(*                         and no clunk has taken back                      *)
(*   allocated             history: the fids alloc returned and release     *)
(*                         has not taken back                               *)
(*   handout               history: {[fid, inUse]} for the latest alloc     *)
(*   sent, calls           the messages sent and the API calls started      *)
(*   msize                 the field of Client9P set by version()           *)
(*   threw                 history: the tags of the requests whose          *)
(*                         transport.send threw                             *)

NOTAG == 65535

NewClient ==
    [tagCounter |-> 0, pending |-> << >>, next |-> 0, free |-> <<>>,
     wire |-> {}, srvFids |-> {}, allocated |-> {}, handout |-> {},
     sent |-> 0, calls |-> 0, msize |-> 8192, threw |-> {}]

\* allocTag: the tag handed out, and the counter wrapped below NOTAG
allocTag(c) ==
    [tag |-> c.tagCounter,
     c |-> [c EXCEPT !.tagCounter = IF c.tagCounter + 1 >= NOTAG THEN 0
                                    ELSE c.tagCounter + 1]]

\* send(msg, callback) with msg.tag from allocTag: pending.set(tag, callback)
send(c, kind, fid, callback) ==
    LET t == allocTag(c)
    IN  [t.c EXCEPT
           !.pending = [k \in DOMAIN c.pending \cup {t.tag} |->
                          IF k = t.tag THEN callback ELSE c.pending[k]],
           !.wire = @ \cup {[tag |-> t.tag, kind |-> kind, fid |-> fid, n |-> c.sent]},
           !.sent = @ + 1]

\* FidPool.alloc: the top of the free list, else the next fresh fid
FidPool_alloc(c) ==
    LET fid == IF Len(c.free) > 0 THEN c.free[Len(c.free)] ELSE c.next
    IN  [fid |-> fid,
         c |-> [c EXCEPT
                  !.free = IF Len(c.free) > 0 THEN SubSeq(c.free, 1, Len(c.free) - 1) ELSE @,
                  !.next = IF Len(c.free) > 0 THEN @ ELSE @ + 1,
                  !.handout = {[fid |-> fid, inUse |-> fid \in c.allocated \cup c.srvFids]},
                  !.allocated = @ \cup {fid}]]

\* FidPool.release: the fid is pushed on the free list
FidPool_release(c, fid) ==
    [c EXCEPT !.free = Append(@, fid), !.allocated = @ \ {fid}]

\* the callback send registered, run on a reply: the continuation of the
\* API call after its await
RunCallback(c, cb, ok) ==
    CASE cb.api = "walkOpen" /\ cb.step = "walk" ->
             IF ok THEN send(c, "open", cb.fid, [cb EXCEPT !.step = "open"])
             ELSE FidPool_release(c, cb.fid)
      [] cb.api = "walkOpen" /\ cb.step = "open" ->
             IF ok THEN c ELSE FidPool_release(c, cb.fid)
      [] cb.api = "clone" ->
             IF ok THEN c ELSE FidPool_release(c, cb.fid)
      [] cb.api = "clunk" ->
             IF ok THEN FidPool_release(c, cb.fid) ELSE c
      [] cb.api \in {"read", "write"} -> c

\* handleMessage: the callback registered under the reply's tag, if any, is
\* removed from pending and called
handleMessage(c, tag, ok) ==
    IF tag \in DOMAIN c.pending
    THEN RunCallback([c EXCEPT !.pending = [k \in DOMAIN c.pending \ {tag} |-> c.pending[k]]],
                     c.pending[tag], ok)
    ELSE c

\* the server answers a T-message: a walk that succeeds binds its new fid, a
\* clunk that succeeds takes the fid back
Served(c, m, ok) ==
    [c EXCEPT !.wire = @ \ {m},
              !.srvFids = IF ok /\ m.kind = "walk" THEN @ \cup {m.fid}
                          ELSE IF ok /\ m.kind = "clunk" THEN @ \ {m.fid}
                          ELSE @]

----------------------------------------------------------------------------
(* Transport (9p/messages.ts).  The transport is a record:                  *)
(*   ws              the readyState of this.ws: "none" while it is null,    *)
(*                   then "connecting", "open" or "closed"                  *)
(*   reconnectTimer  TRUE while the timer of scheduleReconnect is set       *)
(*   pendingData     the bytes kept for the next chunk, <<>> for null       *)
(*   hung            a framing loop that never ends                         *)
(*   conn            history: the number of connect() calls                 *)
(*   stream          the messages the server sends on this connection       *)
(*   inFlight        the bytes of them that have not arrived yet            *)
(*   delivered       history: the onMessage calls since the latest connect  *)
(*   sizeCut         history: a chunk of this connection ended inside the   *)
(*                   size field of a message                                *)

NewTransport ==
    [ws |-> "none", reconnectTimer |-> FALSE, pendingData |-> <<>>, hung |-> FALSE,
     conn |-> 0, stream |-> <<>>, inFlight |-> <<>>, delivered |-> <<>>,
     sizeCut |-> FALSE]

\* view.getUint32(0, true) of the four bytes at offset
SizeAt(data, offset) ==
    data[offset + 1] + 256 * data[offset + 2] + 65536 * data[offset + 3]
    + 16777216 * data[offset + 4]

\* a variant that keeps no remainder shorter than a size field
saveRest_dropsShort(data, offset) ==
    IF Len(data) - offset < 4 THEN <<>> ELSE SubSeq(data, offset + 1, Len(data))

\* this.pendingData = data.slice(offset), null when nothing remains
saveRest(data, offset) == SubSeq(data, offset + 1, Len(data))

\* the loop of handleData: the messages framed from data at offset, and the
\* bytes kept; a size of zero never moves the offset
RECURSIVE frameLoop(_, _, _)
frameLoop(data, offset, out) ==
    IF offset + 4 <= Len(data)
    THEN LET size == SizeAt(data, offset)
         IN  IF offset + size > Len(data)
             THEN [out |-> out, pendingData |-> SubSeq(data, offset + 1, Len(data)),
                   hung |-> FALSE]
             ELSE IF size = 0
             THEN [out |-> Append(out, <<>>), pendingData |-> <<>>, hung |-> TRUE]
             ELSE frameLoop(data, offset + size,
                            Append(out, SubSeq(data, offset + 1, offset + size)))
    ELSE [out |-> out, pendingData |-> saveRest(data, offset), hung |-> FALSE]

\* handleData(chunk): the chunk follows the bytes kept from the chunk before
handleData(t, chunk) ==
    LET f == frameLoop(t.pendingData \o chunk, 0, <<>>)
    IN  [t EXCEPT !.pendingData = f.pendingData,
                  !.delivered = @ \o f.out,
                  !.hung = f.hung]

\* Transport.send: throws unless the socket is open
canSend(t) == t.ws = "open"

\* Client9P.send when transport.send throws: the callback has been stored
\* under the tag, nothing is on the wire, and the promise of the API call is
\* rejected, which runs the catch of the caller
sendThrows(c, callback) ==
    LET t == allocTag(c)
        kept == [t.c EXCEPT
                   !.pending = [k \in DOMAIN c.pending \cup {t.tag} |->
                                  IF k = t.tag THEN callback ELSE c.pending[k]],
                   !.threw = @ \cup {t.tag}]
    IN  RunCallback(kept, callback, FALSE)

\* Client9P.send over the transport t
sendOver(t, c, kind, fid, callback) ==
    IF canSend(t) THEN send(c, kind, fid, callback) ELSE sendThrows(c, callback)

\* connect(): a new WebSocket; the other fields of the transport stay
connect(t) ==
    [t EXCEPT !.ws = "connecting", !.conn = @ + 1, !.stream = <<>>, !.inFlight = <<>>,
              !.delivered = <<>>, !.sizeCut = FALSE]

\* ws.onclose: onDisconnect, then scheduleReconnect; the bytes that had not
\* arrived are lost
onclose(t) ==
    [t EXCEPT !.ws = "closed", !.reconnectTimer = TRUE, !.inFlight = <<>>]

----------------------------------------------------------------------------
(* ConsDevice (devices/cons.ts) and DrawDevice (devices/draw.ts).  The      *)
(* device is a record:                                                      *)
(*   reading         the flag of ConsDevice                                 *)
(*   awaiting        the readLoop calls that await a client.read            *)
(*   sleeping        the readLoop calls that await the timer after an error *)
(*   depth           history: the pipelineDepth of the latest startReading, *)
(*                   0 before the first                                     *)
(*   w               ConsDevice.write: the length of data, the offset, the  *)
(*                   length of the Twrite that awaits its Rwrite, where the *)
(*                   call is at, and as history the byte ranges             *)
(*                   acknowledged and the parity of the Twrites sent        *)
(*   d               DrawDevice.sendCommands: the length of the buffer,     *)
(*                   where the call is at, and as history the number of     *)
(*                   bytes of the buffer sent to the server                 *)
(* A buffer is kept as its length: byte i of it is the number i.            *)

IOHDRSZ == 24

NoWrite ==
    [len |-> 0, offset |-> 0, chunk |-> 0, at |-> "idle", acked |-> <<>>, round |-> 0]

NoSend == [len |-> 0, at |-> "idle", wrote |-> 0]

NewDevice ==
    [reading |-> FALSE, awaiting |-> 0, sleeping |-> 0, depth |-> 0,
     w |-> NoWrite, d |-> NoSend]

\* Client9P.write sends data.slice(0, msize - IOHDRSZ): the length of the
\* Twrite for len bytes of data
clientWrite(c, len) == Min2(len, c.msize - IOHDRSZ)

\* startReading(pipelineDepth): the flag is set and readLoop is called
\* pipelineDepth times; each call finds the flag set and awaits its read
startReading(dv, pipelineDepth) ==
    [dv EXCEPT !.reading = TRUE, !.awaiting = @ + pipelineDepth, !.depth = pipelineDepth]

\* stopReading()
stopReading(dv) == [dv EXCEPT !.reading = FALSE]

\* readLoop after its read has resolved: onData, then the test of the
\* while; the loop reads again or ends
readLoop_resolved(dv) ==
    IF dv.reading THEN dv ELSE [dv EXCEPT !.awaiting = @ - 1]

\* readLoop after its read has been rejected: onError, then the timer
readLoop_rejected(dv) ==
    [dv EXCEPT !.awaiting = @ - 1, !.sleeping = @ + 1]

\* readLoop after the timer: the test of the while
readLoop_woken(dv) ==
    IF dv.reading THEN [dv EXCEPT !.sleeping = @ - 1, !.awaiting = @ + 1]
    ELSE [dv EXCEPT !.sleeping = @ - 1]

\* ConsDevice.write(data): the first turn of the loop sends a Twrite
consWrite(c, len) ==
    IF len = 0 THEN [NoWrite EXCEPT !.at = "done"]
    ELSE [len |-> len, offset |-> 0, chunk |-> clientWrite(c, len), at |-> "awaiting",
          acked |-> <<>>, round |-> 1]

\* the loop of ConsDevice.write after an Rwrite of count bytes: offset moves
\* by count and the rest of data, if any, is sent
consWrite_acked(c, w, count) ==
    LET offset == w.offset + count
        acked == IF count > 0 THEN Append(w.acked, [from |-> w.offset, count |-> count])
                 ELSE w.acked
    IN  IF offset < w.len
        THEN [w EXCEPT !.offset = offset, !.chunk = clientWrite(c, w.len - offset),
                       !.acked = acked, !.round = 1 - @]
        ELSE [w EXCEPT !.offset = offset, !.chunk = 0, !.acked = acked, !.at = "done"]

\* sendCommands(data): one client.write of the buffer
sendCommands(c, len) == [len |-> len, at |-> "writing", wrote |-> clientWrite(c, len)]

----------------------------------------------------------------------------
(* Canvases.  A pixel is <<R, G, B, A>>; alpha is 0 or 255 in this model,   *)
(* so Porter-Duff composition needs no arithmetic.                         *)

Transparent == <<0, 0, 0, 0>>

Opaque(c) == c[4] # 0

Pixels(w, h) == (0 .. (w - 1)) \X (0 .. (h - 1))

\* new OffscreenCanvas(w, h): transparent black.  clip is the drawing state of
\* the canvas's 2D context: the pixels its clipping region lets through, the
\* whole canvas until a ctx.clip() is left in force
NewCanvas(w, h) ==
    [w |-> w, h |-> h, px |-> [p \in Pixels(w, h) |-> Transparent], clip |-> Pixels(w, h)]

\* the 2D context's composition of source pixel s onto destination pixel d
Composite(gco, s, d) ==
    CASE gco = "source-over"      -> IF Opaque(s) THEN s ELSE d
      [] gco = "copy"             -> IF Opaque(s) THEN s ELSE Transparent
      [] gco = "destination-over" -> IF Opaque(d) THEN d ELSE s
      [] gco = "source-in"        -> IF Opaque(s) /\ Opaque(d) THEN s ELSE Transparent
      [] gco = "destination-in"   -> IF Opaque(s) /\ Opaque(d) THEN d ELSE Transparent
      [] gco = "source-out"       -> IF Opaque(s) /\ ~Opaque(d) THEN s ELSE Transparent
      [] gco = "destination-out"  -> IF Opaque(d) /\ ~Opaque(s) THEN d ELSE Transparent
      [] gco = "source-atop"      -> IF Opaque(d) THEN (IF Opaque(s) THEN s ELSE d) ELSE Transparent
      [] gco = "destination-atop" -> IF Opaque(s) THEN (IF Opaque(d) THEN d ELSE s) ELSE Transparent
      [] gco = "xor"              -> IF Opaque(s) /\ Opaque(d) THEN Transparent
                                     ELSE IF Opaque(s) THEN s ELSE d

\* the pixel of canvas cv at p; transparent black outside the canvas
PixelAt(cv, x, y) == IF <<x, y>> \in DOMAIN cv.px THEN cv.px[<<x, y>>] ELSE Transparent

\* Paint a source onto canvas cv inside the clip region: src is a function
\* from the covered pixels to their colour; every other pixel of the clip
\* region is composited with a transparent source, as the 2D context does.
Paint(cv, src, gco, clip) ==
    [cv EXCEPT !.px = [p \in DOMAIN cv.px |->
        IF p \in clip /\ p \in cv.clip
        THEN Composite(gco, IF p \in DOMAIN src THEN src[p] ELSE Transparent, cv.px[p])
        ELSE cv.px[p]]]

\* ctx.fillRect(x, y, w, h) with fillStyle colour
FillRect(cv, x, y, w, h, colour, gco, clip) ==
    Paint(cv,
          [p \in {q \in DOMAIN cv.px : /\ q[1] >= Min2(x, x + w) /\ q[1] < Max2(x, x + w)
                                        /\ q[2] >= Min2(y, y + h) /\ q[2] < Max2(y, y + h)}
             |-> colour],
          gco, clip)

\* ctx.drawImage(from, sx, sy, w, h, dx, dy, w, h) onto cv: no scaling; the
\* source rectangle is clipped to the source canvas; nothing is drawn when w
\* or h is zero; a negative extent is taken from the other corner.
DrawImage(cv, from, sx, sy, w, h, dx, dy, gco, clip) ==
    IF w = 0 \/ h = 0 THEN cv
    ELSE LET x0 == Min2(0, w)  x1 == Max2(0, w)
             y0 == Min2(0, h)  y1 == Max2(0, h)
             cover == {p \in DOMAIN cv.px :
                         /\ p[1] - dx >= x0 /\ p[1] - dx < x1
                         /\ p[2] - dy >= y0 /\ p[2] - dy < y1
                         /\ <<sx + (p[1] - dx), sy + (p[2] - dy)>> \in DOMAIN from.px}
         IN  Paint(cv, [p \in cover |-> from.px[<<sx + (p[1] - dx), sy + (p[2] - dy)>>]],
                   gco, clip)

\* the rectangle ctx.rect(x, y, w, h); ctx.clip() leaves drawable
ClipRect(cv, x, y, w, h) ==
    {q \in DOMAIN cv.px : /\ q[1] >= Min2(x, x + w) /\ q[1] < Max2(x, x + w)
                          /\ q[2] >= Min2(y, y + h) /\ q[2] < Max2(y, y + h)}

----------------------------------------------------------------------------
(* Helper methods of DrawRenderer *)

Has(id) == id \in DOMAIN images

\* getContext / getCanvas: image 0 always draws on the screen canvas
getContext(img) == IF img.id = 0 THEN 0 ELSE img.canvas

\* sampleColor: the pixel under p, clamped with the image's recorded size
sampleColor(img, p) ==
    LET x == Max2(0, Min2(p.x - img.r.minX, img.width - 1))
        y == Max2(0, Min2(p.y - img.r.minY, img.height - 1))
    IN  PixelAt(canvases[getContext(img)], x, y)

\* addRefresh: only refreshes of image 0 are recorded; the history keeps the
\* caller of every call
addRefreshFrom(caller, imageId, r) ==
    /\ refreshRects' = IF imageId = 0 THEN Append(refreshRects, r) ELSE refreshRects
    /\ refreshLog' = Append(refreshLog, [id |-> imageId, r |-> r, from |-> caller])

addRefresh(imageId, r) == addRefreshFrom("handler", imageId, r)

\* room left in the refresh accumulator explored by the model
RefreshRoom == Len(refreshLog) < MaxRefresh

\* colour of the alloc fill, rgba(r, g, b, a / 255); the 32-bit colour is
\* kept as its bytes <<A, R, G, B>>, most significant first
AllocColour(color) ==
    IF color[1] = 0 THEN Transparent
    ELSE << color[2], color[3], color[4], color[1] >>

\* canvases no image refers to are garbage; key 0 is the screen canvas
Collect(imgs, cvs) ==
    [k \in {0} \cup {imgs[i].canvas : i \in DOMAIN imgs} |-> cvs[k]]

\* a canvas key no image other than id holds
FreshKey(id) ==
    CHOOSE k \in 1 .. (Cardinality(DOMAIN images) + 1) :
        \A i \in DOMAIN images \ {id} : images[i].canvas # k

----------------------------------------------------------------------------
(* processCommands: the dispatch loop *)

Running == phase = "running" /\ remaining > 0

\* a handler returned: the loop goes on with the next command
\* a variant of the loop that puts the newest response first
Ok_prepend(resp) ==
    /\ phase' = phase
    /\ remaining' = remaining - 1
    /\ responses' = resp \o responses
    /\ UNCHANGED <<result, returned>>

Ok(resp) ==
    /\ phase' = phase
    /\ remaining' = remaining - 1
    /\ responses' = responses \o resp
    /\ UNCHANGED <<result, returned>>

\* a variant of the loop that swallows the exception and carries on
Throw_swallowed ==
    /\ phase' = phase
    /\ remaining' = remaining - 1
    /\ result' = "threw"
    /\ UNCHANGED <<responses, returned>>

\* a handler threw: nothing catches it, processCommands ends without a value
Throw ==
    /\ phase' = "idle"
    /\ result' = "threw"
    /\ returned' = NoValue
    /\ UNCHANGED <<remaining, responses>>

----------------------------------------------------------------------------
(* Image store handlers *)

\* 'b' - allocate image
cmdAlloc(id, screenId, refresh, chan, repl, r, clipr, color) ==
    LET width == rectWidth(r)
        height == rectHeight(r)
        key == FreshKey(id)
        canvas == FillRect(NewCanvas(Max2(1, width), Max2(1, height)),
                           0, 0, width, height, AllocColour(color), "source-over",
                           Pixels(Max2(1, width), Max2(1, height)))
        img == [id |-> id, width |-> width, height |-> height, chan |-> chan,
                repl |-> repl, r |-> r, clipr |-> clipr, screenId |-> screenId,
                canvas |-> key]
        imgs == [i \in DOMAIN images \cup {id} |-> IF i = id THEN img ELSE images[i]]
    IN  /\ images' = imgs
        /\ canvases' = Collect(imgs, [k \in DOMAIN canvases \cup {key} |->
                                        IF k = key THEN canvas ELSE canvases[k]])
        /\ UNCHANGED <<fonts, currentOp, refreshRects, refreshLog, emitted>>
        /\ Ok(<<>>)

\* cmdFree without the test that protects the screen image
cmdFree_unguarded(id) ==
    LET imgs == [i \in DOMAIN images \ {id} |-> images[i]]
    IN  /\ images' = imgs
        /\ fonts' = [i \in DOMAIN fonts \ {id} |-> fonts[i]]
        /\ canvases' = [k \in {0} \cup {imgs[i].canvas : i \in DOMAIN imgs} |-> canvases[k]]
        /\ UNCHANGED <<currentOp, refreshRects, refreshLog, emitted>>
        /\ Ok(<<>>)

\* cmdFree that forgets the font keyed by the image
cmdFree_keepsFont(id) ==
    LET imgs == IF id # 0 THEN [i \in DOMAIN images \ {id} |-> images[i]] ELSE images
    IN  /\ images' = imgs
        /\ canvases' = Collect(imgs, canvases)
        /\ UNCHANGED <<fonts, currentOp, refreshRects, refreshLog, emitted>>
        /\ Ok(<<>>)

\* 'f' - free image
cmdFree(id) ==
    LET imgs == IF id # 0 THEN [i \in DOMAIN images \ {id} |-> images[i]] ELSE images
    IN  /\ images' = imgs
        /\ fonts' = IF id # 0 THEN [i \in DOMAIN fonts \ {id} |-> fonts[i]] ELSE fonts
        /\ canvases' = Collect(imgs, canvases)
        /\ UNCHANGED <<currentOp, refreshRects, refreshLog, emitted>>
        /\ Ok(<<>>)

\* 'c' - set clip: an unknown id is skipped without an error
cmdSetClip(dstId, repl, clipr) ==
    /\ images' = IF Has(dstId)
                 THEN [images EXCEPT ![dstId].repl = repl, ![dstId].clipr = clipr]
                 ELSE images
    /\ UNCHANGED <<fonts, canvases, currentOp, refreshRects, refreshLog, emitted>>
    /\ Ok(<<>>)

\* 'O' - set compositing operator
cmdSetOp(op) ==
    /\ currentOp' = op
    /\ UNCHANGED <<images, fonts, canvases, refreshRects, refreshLog, emitted>>
    /\ Ok(<<>>)

\* 'N' - name image (global): an unknown id becomes a copy of the screen record
cmdNameImage(dstId, inFlag, name) ==
    /\ images' = IF Has(dstId) THEN images
                 ELSE [i \in DOMAIN images \cup {dstId} |->
                         IF i = dstId THEN [images[0] EXCEPT !.id = dstId] ELSE images[i]]
    /\ UNCHANGED <<fonts, canvases, currentOp, refreshRects, refreshLog, emitted>>
    /\ Ok(<<>>)

\* 'n' - name image (local)
cmdNameImageLocal(dstId, name) ==
    /\ images' = IF Has(dstId) THEN images
                 ELSE [i \in DOMAIN images \cup {dstId} |->
                         IF i = dstId THEN [images[0] EXCEPT !.id = dstId] ELSE images[i]]
    /\ UNCHANGED <<fonts, canvases, currentOp, refreshRects, refreshLog, emitted>>
    /\ Ok(<<>>)

\* a zeroed Fontchar
ZeroChar == [x |-> 0, top |-> 0, bottom |-> 0, left |-> 0, width |-> 0]

\* initfont that allocates no sentinel entry
cmdInitFont_noSentinel(fontId, nchars, ascent) ==
    IF ~Has(fontId) \/ nchars + 1 < 0
    THEN /\ UNCHANGED <<images, fonts, canvases, currentOp, refreshRects, refreshLog, emitted>>
         /\ Throw
    ELSE /\ fonts' = [i \in DOMAIN fonts \cup {fontId} |->
                        IF i = fontId
                        THEN [id |-> fontId, n |-> nchars, ascent |-> ascent,
                              height |-> ascent,
                              chars |-> [k \in 1 .. nchars |-> ZeroChar]]
                        ELSE fonts[i]]
         /\ UNCHANGED <<images, canvases, currentOp, refreshRects, refreshLog, emitted>>
         /\ Ok(<<>>)

\* 'i' - initialize font: chars[k + 1] is the Fontchar of index k; nchars is
\* a signed long, and new Array(nchars + 1) throws a RangeError on a negative
\* length before the font is registered
cmdInitFont(fontId, nchars, ascent) ==
    IF ~Has(fontId) \/ nchars + 1 < 0
    THEN /\ UNCHANGED <<images, fonts, canvases, currentOp, refreshRects, refreshLog, emitted>>
         /\ Throw
    ELSE /\ fonts' = [i \in DOMAIN fonts \cup {fontId} |->
                        IF i = fontId
                        THEN [id |-> fontId, n |-> nchars, ascent |-> ascent,
                              height |-> ascent,
                              chars |-> [k \in 1 .. (nchars + 1) |-> ZeroChar]]
                        ELSE fonts[i]]
         /\ UNCHANGED <<images, canvases, currentOp, refreshRects, refreshLog, emitted>>
         /\ Ok(<<>>)

\* srcCtx.getImageData(sx, sy, w, h) followed by dstCtx.putImageData(.., dx, dy):
\* the pixels are replaced, not composited
CopyPixels(cv, from, sx, sy, w, h, dx, dy) ==
    [cv EXCEPT !.px = [p \in DOMAIN cv.px |->
        IF /\ p[1] >= dx /\ p[1] < dx + w /\ p[2] >= dy /\ p[2] < dy + h
        THEN PixelAt(from, sx + (p[1] - dx), sy + (p[2] - dy))
        ELSE cv.px[p]]]

\* 'l' - load character
cmdLoadChar(fontId, srcId, index, r, p, left, width) ==
    IF fontId \notin DOMAIN fonts \/ index >= fonts[fontId].n
    THEN /\ UNCHANGED <<images, fonts, canvases, currentOp, refreshRects, refreshLog, emitted>>
         /\ Ok(<<>>)
    ELSE IF ~Has(fontId) \/ ~Has(srcId)
    THEN /\ UNCHANGED <<images, fonts, canvases, currentOp, refreshRects, refreshLog, emitted>>
         /\ Throw
    ELSE LET font == fonts[fontId]
             fontImage == images[fontId]
             src == images[srcId]
             srcKey == getContext(src)
             fontKey == getContext(fontImage)
             glyphWidth == rectWidth(r)
             glyphHeight == rectHeight(r)
             chars1 == [font.chars EXCEPT ![index + 1] =
                          [x |-> r.minX, top |-> r.minY, bottom |-> r.maxY,
                           left |-> IF left > 127 THEN left - 256 ELSE left,
                           width |-> width]]
             chars2 == IF index + 1 <= font.n
                       THEN [chars1 EXCEPT ![index + 2].x = r.maxX]
                       ELSE chars1
         IN  /\ canvases' =
                   IF glyphWidth > 0 /\ glyphHeight > 0
                   THEN [canvases EXCEPT ![fontKey] =
                           CopyPixels(canvases[fontKey], canvases[srcKey],
                                      p.x - src.r.minX, p.y - src.r.minY,
                                      glyphWidth, glyphHeight,
                                      r.minX - fontImage.r.minX, r.minY - fontImage.r.minY)]
                   ELSE canvases
             /\ fonts' = [fonts EXCEPT ![fontId] =
                            [font EXCEPT !.chars = chars2,
                                         !.height = IF r.maxY > font.height
                                                    THEN r.maxY ELSE font.height]]
             /\ UNCHANGED <<images, currentOp, refreshRects, refreshLog, emitted>>
             /\ Ok(<<>>)

\* the bounding box cmdFlush hands to onFlush
BoundingBox(rects) ==
    LET n == Len(rects)
        lo(f(_)) == CHOOSE v \in {f(rects[i]) : i \in 1 .. n} :
                        \A i \in 1 .. n : v <= f(rects[i])
        hi(f(_)) == CHOOSE v \in {f(rects[i]) : i \in 1 .. n} :
                        \A i \in 1 .. n : v >= f(rects[i])
        minXof(r) == r.minX
        minYof(r) == r.minY
        maxXof(r) == r.maxX
        maxYof(r) == r.maxY
    IN  Rect(lo(minXof), lo(minYof), hi(maxXof), hi(maxYof))

\* cmdFlush that reports but keeps the accumulator
cmdFlush_keeps ==
    /\ emitted' = IF Len(refreshRects) > 0 /\ onFlush
                  THEN {BoundingBox(refreshRects)} ELSE NoValue
    /\ refreshLog' = <<>>
    /\ UNCHANGED <<images, fonts, canvases, currentOp, refreshRects>>
    /\ Ok(<<>>)

\* cmdFlush that hands the host an empty rectangle when nothing is pending
cmdFlush_always ==
    /\ emitted' = IF ~onFlush THEN NoValue
                  ELSE IF Len(refreshRects) > 0 THEN {BoundingBox(refreshRects)}
                  ELSE {Rect(0, 0, 0, 0)}
    /\ refreshRects' = <<>>
    /\ refreshLog' = <<>>
    /\ UNCHANGED <<images, fonts, canvases, currentOp>>
    /\ Ok(<<>>)

\* 'v' - flush
cmdFlush ==
    /\ emitted' = IF Len(refreshRects) > 0 /\ onFlush
                  THEN {BoundingBox(refreshRects)} ELSE NoValue
    /\ refreshRects' = <<>>
    /\ refreshLog' = <<>>
    /\ UNCHANGED <<images, fonts, canvases, currentOp>>
    /\ Ok(<<>>)

\* 'o', 'A', 'F', 't', 'B' - origin, allocscreen, freescreen, top, bottom:
\* the parameters are read and dropped
cmdIgnored ==
    /\ UNCHANGED <<images, fonts, canvases, currentOp, refreshRects, refreshLog, emitted>>
    /\ Ok(<<>>)

\* the 128-byte label of the init response: "enoch", NUL padded
InitLabel == [i \in 1 .. 128 |->
                IF i <= 5 THEN <<101, 110, 111, 99, 104>>[i] ELSE 0]

\* 'I' - init
cmdInit ==
    /\ UNCHANGED <<images, fonts, canvases, currentOp, refreshRects, refreshLog, emitted>>
    /\ Ok(encodeLong(0) \o encodeLong(Channel_XRGB32) \o InitLabel
            \o encodeLong(images[0].r.minX) \o encodeLong(images[0].r.minY)
            \o encodeLong(images[0].r.maxX) \o encodeLong(images[0].r.maxY))

\* an opcode byte processCommand has no case for
cmdUnknown ==
    /\ UNCHANGED <<images, fonts, canvases, currentOp, refreshRects, refreshLog, emitted>>
    /\ Throw

\* a handler whose DataView read runs past the end of the buffer: the
\* RangeError leaves the handler before it has changed anything
cmdTruncated ==
    /\ remaining = 1
    /\ UNCHANGED <<images, fonts, canvases, currentOp, refreshRects, refreshLog, emitted>>
    /\ Throw

\* resize(width, height), called by the host between command buffers;
\* assigning canvas.width clears the canvas
resize(width, height) ==
    /\ phase = "idle"
    /\ canvases' = [canvases EXCEPT ![0] = NewCanvas(width, height)]
    /\ images' = [images EXCEPT ![0].width = width, ![0].height = height,
                                ![0].r = Rect(0, 0, width, height),
                                ![0].clipr = Rect(0, 0, width, height)]
    /\ UNCHANGED <<fonts, currentOp, refreshRects, refreshLog, emitted, onFlush,
                   useFontFallback, phase, remaining, responses, result,
                   returned, last, sinceFlush>>
    /\ UNCHANGED codecVars
    /\ UNCHANGED clientVars

----------------------------------------------------------------------------
(* Drawing handlers.  Every one of them calls getOp() after it has looked   *)
(* up its images: getOp returns currentOp and resets it to SoverD.          *)

\* a getOp that returns the operator and leaves it installed
getOp_sticky == currentOp' = currentOp

\* getOp: the operator is consumed
getOp == currentOp' = SoverD

\* a handler that throws before it reaches getOp
ThrowEarly ==
    /\ UNCHANGED <<images, fonts, canvases, currentOp, refreshRects, refreshLog, emitted>>
    /\ Throw

\* a handler that throws after getOp, before it has drawn
ThrowAfterGetOp ==
    /\ getOp
    /\ UNCHANGED <<images, fonts, canvases, refreshRects, refreshLog, emitted>>
    /\ Throw

\* a string handler that throws between ctx.save() + ctx.clip() and
\* ctx.restore(): the clipping region stays in force on the context of dst
ThrowAfterClip(dst, clipr) ==
    LET key == getContext(dst)
        cv == canvases[key]
    IN  /\ getOp
        /\ canvases' = [canvases EXCEPT ![key].clip =
                           cv.clip \cap ClipRect(cv, clipr.minX - dst.r.minX,
                                                 clipr.minY - dst.r.minY,
                                                 rectWidth(clipr), rectHeight(clipr))]
        /\ UNCHANGED <<images, fonts, refreshRects, refreshLog, emitted>>
        /\ Throw

\* What stroke(), fill() and fillText() cover is the platform's rasterizer's
\* business: either nothing of the canvas or the pixel under the anchor.
Coverage(cv, x, y) == {{}, {<<x, y>>} \cap DOMAIN cv.px}

\* stroke or fill a path with one colour on the canvas of dst
PaintShape(dst, cover, colour, op) ==
    LET key == getContext(dst)
        cv == canvases[key]
    IN  canvases' = [canvases EXCEPT ![key] =
                       Paint(cv, [q \in cover |-> colour], CompositeOf(op), DOMAIN cv.px)]

\* 'd' - draw (blit)
cmdDraw(dstId, srcId, maskId, r, sp, mp) ==
    IF ~Has(dstId) \/ ~Has(srcId) \/ (maskId # 0 /\ ~Has(maskId))
    THEN ThrowEarly
    ELSE LET dst == images[dstId]
             src == images[srcId]
             key == getContext(dst)
             cv == canvases[key]
             gco == CompositeOf(currentOp)
             dstX == r.minX - dst.r.minX
             dstY == r.minY - dst.r.minY
             width == rectWidth(r)
             height == rectHeight(r)
             srcX == sp.x - src.r.minX
             srcY == sp.y - src.r.minY
             srcCanvas == canvases[getContext(src)]
         IN  IF maskId # 0 /\ (width <= 0 \/ height <= 0)
             THEN \* new OffscreenCanvas(width, height) rejects a negative size,
                  \* and drawImage rejects the zero-sized temporary canvas
                  ThrowAfterGetOp
             ELSE /\ getOp
                  /\ canvases' = [canvases EXCEPT ![key] =
                        IF maskId # 0
                        THEN LET mask == images[maskId]
                                 temp1 == DrawImage(NewCanvas(width, height), srcCanvas,
                                                    srcX, srcY, width, height, 0, 0,
                                                    "source-over", Pixels(width, height))
                                 temp2 == DrawImage(temp1, canvases[getContext(mask)],
                                                    mp.x - mask.r.minX, mp.y - mask.r.minY,
                                                    width, height, 0, 0,
                                                    "destination-in", Pixels(width, height))
                             IN  DrawImage(cv, temp2, 0, 0, width, height, dstX, dstY,
                                           gco, DOMAIN cv.px)
                        ELSE DrawImage(cv, srcCanvas, srcX, srcY, width, height,
                                       dstX, dstY, gco, DOMAIN cv.px)]
                  /\ addRefresh(dstId, r)
                  /\ UNCHANGED <<images, fonts, emitted>>
                  /\ Ok(<<>>)

\* 'L' - line
cmdLine(dstId, p0, p1, end0, end1, radius, srcId, sp) ==
    IF ~Has(dstId) \/ ~Has(srcId)
    THEN ThrowEarly
    ELSE LET dst == images[dstId]
             src == images[srcId]
             t == radius
         IN  /\ getOp
             /\ \E cover \in Coverage(canvases[getContext(dst)],
                                       p0.x - dst.r.minX, p0.y - dst.r.minY) :
                    PaintShape(dst, cover, sampleColor(src, sp), currentOp)
             /\ addRefresh(dstId, Rect(Min2(p0.x, p1.x) - t - 1, Min2(p0.y, p1.y) - t - 1,
                                       Max2(p0.x, p1.x) + t + 2, Max2(p0.y, p1.y) + t + 2))
             /\ UNCHANGED <<images, fonts, emitted>>
             /\ Ok(<<>>)

\* 'e' / 'E' - ellipse, filled ellipse
cmdEllipse(filled, dstId, srcId, center, a, b, thick, sp, alpha, phi) ==
    IF ~Has(dstId) \/ ~Has(srcId)
    THEN ThrowEarly
    ELSE IF a < 0 \/ b < 0
    THEN \* ctx.ellipse rejects a negative radius
         ThrowAfterGetOp
    ELSE LET dst == images[dstId]
             src == images[srcId]
             t == IF filled THEN 0 ELSE thick
         IN  /\ getOp
             /\ \E cover \in Coverage(canvases[getContext(dst)],
                                       center.x - dst.r.minX, center.y - dst.r.minY) :
                    PaintShape(dst, cover, sampleColor(src, sp), currentOp)
             /\ addRefresh(dstId, Rect(center.x - a - t - 1, center.y - b - t - 1,
                                       center.x + a + t + 2, center.y + b + t + 2))
             /\ UNCHANGED <<images, fonts, emitted>>
             /\ Ok(<<>>)

\* 'a' - arc
cmdArc(dstId, srcId, center, a, b, thick, sp, alpha, phi) ==
    IF ~Has(dstId) \/ ~Has(srcId)
    THEN ThrowEarly
    ELSE IF a < 0 \/ b < 0
    THEN ThrowAfterGetOp
    ELSE LET dst == images[dstId]
             src == images[srcId]
             t == IF thick < 0 THEN 0 - thick ELSE thick
         IN  /\ getOp
             /\ \E cover \in Coverage(canvases[getContext(dst)],
                                       center.x - dst.r.minX, center.y - dst.r.minY) :
                    PaintShape(dst, cover, sampleColor(src, sp), currentOp)
             /\ addRefresh(dstId, Rect(center.x - a - t - 1, center.y - b - t - 1,
                                       center.x + a + t + 2, center.y + b + t + 2))
             /\ UNCHANGED <<images, fonts, emitted>>
             /\ Ok(<<>>)

\* least and greatest coordinate of a point list
MinOf(S) == CHOOSE v \in S : \A w \in S : v <= w
MaxOf(S) == CHOOSE v \in S : \A w \in S : v >= w
Xs(pts) == {pts[i].x : i \in 1 .. Len(pts)}
Ys(pts) == {pts[i].y : i \in 1 .. Len(pts)}

\* 'p' - polygon outline; pts are the n + 1 decoded points
cmdPoly(dstId, pts, end0, end1, radius, srcId, sp) ==
    IF ~Has(dstId) \/ ~Has(srcId)
    THEN ThrowEarly
    ELSE LET dst == images[dstId]
             src == images[srcId]
         IN  /\ getOp
             /\ \E cover \in Coverage(canvases[getContext(dst)],
                                       pts[1].x - dst.r.minX, pts[1].y - dst.r.minY) :
                    PaintShape(dst, cover, sampleColor(src, sp), currentOp)
             /\ addRefresh(dstId, Rect(MinOf(Xs(pts)) - radius - 1, MinOf(Ys(pts)) - radius - 1,
                                       MaxOf(Xs(pts)) + radius + 2, MaxOf(Ys(pts)) + radius + 2))
             /\ UNCHANGED <<images, fonts, emitted>>
             /\ Ok(<<>>)

\* 'P' - filled polygon
cmdFillPoly(dstId, pts, wind, srcId, sp) ==
    IF ~Has(dstId) \/ ~Has(srcId)
    THEN ThrowEarly
    ELSE LET dst == images[dstId]
             src == images[srcId]
         IN  /\ getOp
             /\ \E cover \in Coverage(canvases[getContext(dst)],
                                       pts[1].x - dst.r.minX, pts[1].y - dst.r.minY) :
                    PaintShape(dst, cover, sampleColor(src, sp), currentOp)
             /\ addRefresh(dstId, Rect(MinOf(Xs(pts)), MinOf(Ys(pts)),
                                       MaxOf(Xs(pts)) + 1, MaxOf(Ys(pts)) + 1))
             /\ UNCHANGED <<images, fonts, emitted>>
             /\ Ok(<<>>)

----------------------------------------------------------------------------
(* Strings *)

\* fontHasLoadedGlyphs: some index has an advance and a raster
fontHasLoadedGlyphs(font) ==
    \E i \in 0 .. (Min2(font.n, Len(font.chars) - 1) - 1) :
        font.chars[i + 1].width > 0 /\ font.chars[i + 2].x > font.chars[i + 1].x

\* sum of the advances the background rectangle of 'x' is sized with
RECURSIVE TotalWidth(_, _)
TotalWidth(font, indices) ==
    IF indices = <<>> THEN 0
    ELSE (IF Head(indices) < Len(font.chars) THEN font.chars[Head(indices) + 1].width ELSE 0)
         + TotalWidth(font, Tail(indices))

\* the glyph loop of cmdString: g carries what does not change in the loop
RECURSIVE GlyphLoop(_, _, _, _)
GlyphLoop(cvs, g, indices, curX) ==
    IF indices = <<>> THEN [cvs |-> cvs, curX |-> curX]
    ELSE LET idx == Head(indices)
         IN  IF idx >= g.font.n THEN GlyphLoop(cvs, g, Tail(indices), curX)
             ELSE LET fc == g.font.chars[idx + 1]
                      fcNext == g.font.chars[idx + 2]
                      glyphWidth == fcNext.x - fc.x
                      glyphHeight == fc.bottom - fc.top
                  IN  IF fc.width = 0 THEN GlyphLoop(cvs, g, Tail(indices), curX)
                      ELSE GlyphLoop(
                             IF glyphWidth > 0 /\ glyphHeight > 0
                             THEN [cvs EXCEPT ![g.dstKey] =
                                     DrawImage(cvs[g.dstKey], cvs[g.fontKey],
                                               fc.x - g.fontImage.r.minX,
                                               fc.top - g.fontImage.r.minY,
                                               glyphWidth, glyphHeight,
                                               curX + fc.left,
                                               g.baseY - g.font.ascent + fc.top,
                                               g.gco, g.clip)]
                             ELSE cvs,
                             g, Tail(indices), curX + fc.width)

\* font size and ascent drawStringFallback assumes when no font is registered
FallbackFontSize == 14
\* Math.round(fontSize * 0.8)
FallbackAscent == (FallbackFontSize * 8 + 5) \div 10

\* measureText(text).width, rounded: the platform's business; the empty
\* string measures 0
TextWidths(indices) == {Len(indices) * k : k \in 1 .. 2}

\* drawStringFallback
drawStringFallback(dst, src, fontId, p, clipr, sp, indices, hasBg, bgId, bgp, op) ==
    IF hasBg /\ bgId # 0 /\ ~Has(bgId)
    THEN ThrowAfterClip(dst, clipr)
    ELSE LET key == getContext(dst)
             cv == canvases[key]
             gco == CompositeOf(op)
             clip == ClipRect(cv, clipr.minX - dst.r.minX, clipr.minY - dst.r.minY,
                              rectWidth(clipr), rectHeight(clipr))
             fontSize == IF fontId \in DOMAIN fonts THEN fonts[fontId].height
                         ELSE FallbackFontSize
             ascent == IF fontId \in DOMAIN fonts THEN fonts[fontId].ascent
                       ELSE FallbackAscent
             dstX == p.x - dst.r.minX
             dstY == p.y - dst.r.minY
         IN  \E textWidth \in TextWidths(indices) :
               \E cover \in Coverage(cv, dstX, dstY - 1) :
                 LET cv1 == IF hasBg /\ bgId # 0
                            THEN FillRect(cv, dstX, dstY - ascent, textWidth, fontSize,
                                          sampleColor(images[bgId], bgp), gco, clip)
                            ELSE cv
                     cv2 == IF indices = <<>> THEN cv1
                            ELSE Paint(cv1, [q \in cover |-> sampleColor(src, sp)], gco, clip)
                 IN  /\ getOp
                     /\ canvases' = [canvases EXCEPT ![key] = cv2]
                     /\ addRefreshFrom("fallback", dst.id,
                                       Rect(p.x, p.y - ascent, p.x + textWidth,
                                                p.y + fontSize - ascent))
                     /\ UNCHANGED <<images, fonts, emitted>>
                     /\ Ok(encodePoint(Pt(p.x + textWidth, p.y)))

\* 's' / 'x' - string, string with background
cmdString(hasBg, dstId, srcId, fontId, p, clipr, sp, indices, bgId, bgp) ==
    IF ~Has(dstId) \/ ~Has(srcId)
    THEN ThrowEarly
    ELSE IF ~(fontId \in DOMAIN fonts /\ fontHasLoadedGlyphs(fonts[fontId])) /\ useFontFallback
    THEN drawStringFallback(images[dstId], images[srcId], fontId, p, clipr, sp, indices,
                            hasBg, bgId, bgp, currentOp)
    ELSE IF fontId \notin DOMAIN fonts
    THEN \* no font and no fallback: the point comes back unchanged
         /\ getOp
         /\ UNCHANGED <<images, fonts, canvases, refreshRects, refreshLog, emitted>>
         /\ Ok(encodePoint(p))
    ELSE IF (hasBg /\ bgId # 0 /\ ~Has(bgId)) \/ ~Has(fontId)
    THEN ThrowAfterClip(images[dstId], clipr)
    ELSE LET dst == images[dstId]
             font == fonts[fontId]
             key == getContext(dst)
             cv == canvases[key]
             gco == CompositeOf(currentOp)
             clip == ClipRect(cv, clipr.minX - dst.r.minX, clipr.minY - dst.r.minY,
                              rectWidth(clipr), rectHeight(clipr))
             cv1 == IF hasBg /\ bgId # 0
                    THEN FillRect(cv, p.x - dst.r.minX, p.y - font.ascent - dst.r.minY,
                                  TotalWidth(font, indices), font.height,
                                  sampleColor(images[bgId], bgp), gco, clip)
                    ELSE cv
             done == GlyphLoop([canvases EXCEPT ![key] = cv1],
                               [dstKey |-> key, fontKey |-> getContext(images[fontId]),
                                font |-> font, fontImage |-> images[fontId],
                                baseY |-> p.y - dst.r.minY, gco |-> gco, clip |-> clip],
                               indices, p.x - dst.r.minX)
             endX == done.curX + dst.r.minX
         IN  /\ getOp
             /\ canvases' = done.cvs
             /\ addRefresh(dstId, Rect(p.x, p.y - font.ascent, endX,
                                       p.y + font.height - font.ascent))
             /\ UNCHANGED <<images, fonts, emitted>>
             /\ Ok(encodePoint(Pt(endX, p.y)))

----------------------------------------------------------------------------
(* Pixel data *)

\* channelDepth, for the channels the model loads
channelDepth(chan) ==
    IF chan = Channel_GREY8 THEN 8 ELSE IF chan = Channel_RGB24 THEN 24 ELSE 32

\* data[i] of a Uint8Array, 0-based; a read past the end stores 0
ByteAt(data, i) == IF i < Len(data) THEN data[i + 1] ELSE 0

\* convertToRGBA: the RGBA pixel number k of the ImageData
convertToRGBA(data, k, chan) ==
    IF chan = Channel_GREY8
    THEN IF k < Len(data) THEN <<data[k + 1], data[k + 1], data[k + 1], 255>>
         ELSE Transparent
    ELSE IF chan = Channel_RGB24
    THEN IF 3 * k < Len(data)
         THEN <<ByteAt(data, 3 * k), ByteAt(data, 3 * k + 1), ByteAt(data, 3 * k + 2), 255>>
         ELSE Transparent
    ELSE IF 4 * k < Len(data)
         THEN <<ByteAt(data, 4 * k + 1), ByteAt(data, 4 * k + 2), ByteAt(data, 4 * k + 3), 255>>
         ELSE Transparent

\* decompressPixels: the loop, from input position inPos with out produced
RECURSIVE Decompress(_, _, _, _)
Decompress(data, inPos, out, outLen) ==
    IF ~(inPos < Len(data) /\ Len(out) < outLen) THEN out
    ELSE LET cmd == data[inPos + 1]
         IN  IF cmd >= 128
             THEN LET count == 1 + (cmd - 128)
                      take == Min2(count, Min2(Len(data) - (inPos + 1), outLen - Len(out)))
                  IN  Decompress(data, inPos + 1 + take,
                                 out \o [i \in 1 .. take |-> data[inPos + 1 + i]], outLen)
             ELSE LET count == 1 + cmd
                      value == ByteAt(data, inPos + 1)
                      take == Min2(count, outLen - Len(out))
                  IN  Decompress(data, inPos + 2, out \o [i \in 1 .. take |-> value], outLen)

\* decompressPixels: out is always bytesPerRow * height bytes, zero filled
decompressPixels(data, width, height, chan) ==
    LET outLen == ((width * channelDepth(chan) + 7) * height) \div 8
        got == Decompress(data, 0, <<>>, outLen)
    IN  got \o [i \in 1 .. (outLen - Len(got)) |-> 0]

\* 'y' / 'Y' - load pixel data; the data run to the end of the buffer
cmdLoad(compressed, id, r, data) ==
    IF ~Has(id)
    THEN ThrowEarly
    ELSE IF rectWidth(r) <= 0 \/ rectHeight(r) <= 0
    THEN \* new ImageData(width, height) rejects an empty extent
         ThrowEarly
    ELSE LET img == images[id]
             key == getContext(img)
             cv == canvases[key]
             width == rectWidth(r)
             height == rectHeight(r)
             pixelData == IF compressed THEN decompressPixels(data, width, height, img.chan)
                          ELSE data
             dstX == r.minX - img.r.minX
             dstY == r.minY - img.r.minY
         IN  /\ canvases' = [canvases EXCEPT ![key] =
                   [cv EXCEPT !.px = [q \in DOMAIN cv.px |->
                       IF /\ q[1] >= dstX /\ q[1] < dstX + width
                          /\ q[2] >= dstY /\ q[2] < dstY + height
                       THEN convertToRGBA(pixelData,
                                          (q[2] - dstY) * width + (q[1] - dstX), img.chan)
                       ELSE cv.px[q]]]]
             /\ addRefresh(id, r)
             /\ UNCHANGED <<images, fonts, currentOp, emitted>>
             /\ phase' = phase
             /\ remaining' = 0
             /\ responses' = responses \o encodeLong(Len(pixelData))
             /\ UNCHANGED <<result, returned>>

\* ctx.getImageData(x, y, w, h): the pixels row by row, transparent black
\* outside the canvas; a negative extent is taken from the other corner
ImageDataOf(cv, x, y, w, h) ==
    LET x0 == Min2(x, x + w)
        y0 == Min2(y, y + h)
        aw == Max2(w, 0 - w)
        ah == Max2(h, 0 - h)
    IN  [k \in 1 .. (aw * ah) |-> PixelAt(cv, x0 + ((k - 1) % aw), y0 + ((k - 1) \div aw))]

\* convertFromRGBA: GREY8 averages the colours, every other channel is
\* written as XRGB32, cut to the length of out
convertFromRGBA(pxs, chan) ==
    LET outLen == (Len(pxs) * channelDepth(chan) + 7) \div 8
    IN  IF chan = Channel_GREY8
        THEN [j \in 1 .. outLen |->
                IF j <= Len(pxs)
                THEN (2 * (pxs[j][1] + pxs[j][2] + pxs[j][3]) + 3) \div 6
                ELSE 0]
        ELSE [j \in 1 .. outLen |->
                LET k == (j - 1) \div 4
                    b == (j - 1) % 4
                IN  IF k >= Len(pxs) THEN 0
                    ELSE IF b = 0 THEN 255 ELSE pxs[k + 1][b]]

\* 'r' - unload (read pixel data)
cmdUnload(id, r) ==
    IF ~Has(id)
    THEN ThrowEarly
    ELSE IF rectWidth(r) = 0 \/ rectHeight(r) = 0
    THEN \* getImageData rejects an empty extent
         ThrowEarly
    ELSE LET img == images[id]
         IN  /\ UNCHANGED <<images, fonts, canvases, currentOp, refreshRects, refreshLog,
                            emitted>>
             /\ Ok(convertFromRGBA(ImageDataOf(canvases[getContext(img)],
                                               r.minX - img.r.minX, r.minY - img.r.minY,
                                               rectWidth(r), rectHeight(r)),
                                   img.chan))

----------------------------------------------------------------------------
(* The loop around the handlers *)

DrawingOps == {"draw", "line", "ellipse", "ellipsefill", "arc", "poly", "fillpoly",
               "string", "stringbg"}

\* processCommands(data) is called with a buffer of n commands
Begin(n) ==
    /\ phase = "idle"
    /\ phase' = "running"
    /\ remaining' = n
    /\ responses' = <<>>
    /\ result' = "none"
    /\ returned' = NoValue
    /\ UNCHANGED <<images, fonts, canvases, currentOp, refreshRects, refreshLog, emitted,
                   onFlush, useFontFallback, last, sinceFlush>>
    /\ UNCHANGED codecVars
    /\ UNCHANGED clientVars

\* reader.remaining reached 0: the responses are returned
Return ==
    /\ phase = "running"
    /\ remaining = 0
    /\ phase' = "idle"
    /\ result' = "returned"
    /\ returned' = {responses}
    /\ UNCHANGED <<images, fonts, canvases, currentOp, refreshRects, refreshLog, emitted,
                   onFlush, useFontFallback, last, sinceFlush, remaining, responses>>
    /\ UNCHANGED codecVars
    /\ UNCHANGED clientVars

\* one turn of the loop: read the opcode, run its handler
Step(op, a, handler) ==
    /\ Running
    /\ handler
    /\ last' = [op |-> op, a |-> a, opWas |-> currentOp,
                pending |-> IF op = "setop" THEN {a.op}
                            ELSE IF op \in DrawingOps THEN {}
                            ELSE last.pending]
    /\ sinceFlush' =
          IF op = "flush" THEN [flushed |-> TRUE, drew |-> FALSE, loaded |-> FALSE]
          ELSE IF op \in DrawingOps THEN [sinceFlush EXCEPT !.drew = TRUE]
          ELSE IF op \in {"load", "loadcompressed"} THEN [sinceFlush EXCEPT !.loaded = TRUE]
          ELSE sinceFlush
    /\ UNCHANGED <<onFlush, useFontFallback>>
    /\ UNCHANGED codecVars
    /\ UNCHANGED clientVars

Alloc(c) ==
    Step("alloc", c, cmdAlloc(c.id, c.screenId, c.refresh, c.chan, c.repl, c.r, c.clipr, c.color))

Free(id) == Step("free", [id |-> id], cmdFree(id))

SetClip(c) == Step("setclip", c, cmdSetClip(c.id, c.repl, c.clipr))

SetOp(op) == Step("setop", [op |-> op], cmdSetOp(op))

NameImage(id) == Step("name", [id |-> id], cmdNameImage(id, 1, "screen"))

NameImageLocal(id) == Step("namelocal", [id |-> id], cmdNameImageLocal(id, "screen"))

InitFont(c) == Step("initfont", c, cmdInitFont(c.id, c.n, c.ascent))

LoadChar(c) ==
    Step("loadchar", c, cmdLoadChar(c.id, c.srcId, c.index, c.r, c.p, c.left, c.width))

\* the flush records what had been pending and what had happened before it
Flush ==
    Step("flush", [log |-> refreshLog, second |-> sinceFlush.flushed,
                   drew |-> sinceFlush.drew, loaded |-> sinceFlush.loaded], cmdFlush)

Ignored(op) == Step(op, <<>>, cmdIgnored)

InitCmd == Step("init", <<>>, cmdInit)

Unknown == Step("unknown", <<>>, cmdUnknown)

Truncated(op) == Step(op, [cut |-> TRUE], cmdTruncated)

Draw(c) ==
    /\ RefreshRoom
    /\ Step("draw", c, cmdDraw(c.id, c.srcId, c.maskId, c.r, c.sp, c.mp))

Line(c) ==
    /\ RefreshRoom
    /\ Step("line", c, cmdLine(c.id, c.p0, c.p1, c.end0, c.end1, c.radius, c.srcId, c.sp))

Ellipse(c) ==
    /\ RefreshRoom
    /\ Step(IF c.filled THEN "ellipsefill" ELSE "ellipse", c,
            cmdEllipse(c.filled, c.id, c.srcId, c.center, c.a, c.b, c.thick, c.sp,
                       c.alpha, c.phi))

Arc(c) ==
    /\ RefreshRoom
    /\ Step("arc", c, cmdArc(c.id, c.srcId, c.center, c.a, c.b, c.thick, c.sp,
                             c.alpha, c.phi))

Poly(c) ==
    /\ RefreshRoom
    /\ Step("poly", c, cmdPoly(c.id, c.pts, c.end0, c.end1, c.radius, c.srcId, c.sp))

FillPoly(c) ==
    /\ RefreshRoom
    /\ Step("fillpoly", c, cmdFillPoly(c.id, c.pts, c.wind, c.srcId, c.sp))

String(c) ==
    /\ RefreshRoom
    /\ Step(IF c.hasBg THEN "stringbg" ELSE "string", c,
            cmdString(c.hasBg, c.id, c.srcId, c.fontId, c.p, c.clipr, c.sp, c.indices,
                      c.bgId, c.bgp))

Load(c) ==
    /\ RefreshRoom
    /\ Step(IF c.compressed THEN "loadcompressed" ELSE "load", c,
            cmdLoad(c.compressed, c.id, c.r, c.data))

Unload(c) == Step("unload", c, cmdUnload(c.id, c.r))

Resize(w, h) == resize(w, h)

\* the 32-bit colour a handler read with readULong, as its bytes <<A, R, G, B>>
ColourBytes(u) == << u \div 16777216, (u \div 65536) % 256, (u \div 256) % 256, u % 256 >>

\* the switch of processCommand: the handler of the opcode, run on the
\* parameters it has read
runHandler(opcode, v) ==
    CASE opcode = DrawCmd.Alloc ->
           cmdAlloc(v["id"], v["screenId"], v["refresh"], v["chan"], v["repl"], v["r"],
                    v["clipr"], ColourBytes(v["color"]))
      [] opcode = DrawCmd.Free -> cmdFree(v["id"])
      [] opcode = DrawCmd.Draw ->
           cmdDraw(v["dstId"], v["srcId"], v["maskId"], v["r"], v["sp"], v["mp"])
      [] opcode = DrawCmd.Line ->
           cmdLine(v["dstId"], v["p0"], v["p1"], v["end0"], v["end1"], v["radius"],
                   v["srcId"], v["sp"])
      [] opcode \in {DrawCmd.Ellipse, DrawCmd.EllipseFill} ->
           cmdEllipse(opcode = DrawCmd.EllipseFill, v["dstId"], v["srcId"], v["center"],
                      v["a"], v["b"], v["thick"], v["sp"], v["alpha"], v["phi"])
      [] opcode = DrawCmd.Arc ->
           cmdArc(v["dstId"], v["srcId"], v["center"], v["a"], v["b"], v["thick"],
                  v["sp"], v["alpha"], v["phi"])
      [] opcode = DrawCmd.Poly ->
           cmdPoly(v["dstId"], v["pts"], v["end0"], v["end1"], v["radius"], v["srcId"],
                   v["sp"])
      [] opcode = DrawCmd.FillPoly ->
           cmdFillPoly(v["dstId"], v["pts"], v["wind"], v["srcId"], v["sp"])
      [] opcode = DrawCmd.String ->
           cmdString(FALSE, v["dstId"], v["srcId"], v["fontId"], v["p"], v["clipr"],
                     v["sp"], v["indices"], 0, Pt(0, 0))
      [] opcode = DrawCmd.StringBg ->
           cmdString(TRUE, v["dstId"], v["srcId"], v["fontId"], v["p"], v["clipr"],
                     v["sp"], v["indices"], v["bgId"], v["bgp"])
      [] opcode \in {DrawCmd.Load, DrawCmd.LoadCompressed} ->
           cmdLoad(opcode = DrawCmd.LoadCompressed, v["id"], v["r"], v["data"])
      [] opcode = DrawCmd.Unload -> cmdUnload(v["id"], v["r"])
      [] opcode = DrawCmd.Flush -> cmdFlush
      [] opcode = DrawCmd.SetClip -> cmdSetClip(v["dstId"], v["repl"], v["clipr"])
      [] opcode = DrawCmd.SetOp -> cmdSetOp(v["op"])
      [] opcode = DrawCmd.NameImage -> cmdNameImage(v["id"], v["inFlag"], v["name"])
      [] opcode = DrawCmd.NameImageLocal -> cmdNameImageLocal(v["id"], v["name"])
      [] opcode = DrawCmd.InitFont -> cmdInitFont(v["fontId"], v["nchars"], v["ascent"])
      [] opcode = DrawCmd.LoadChar ->
           cmdLoadChar(v["fontId"], v["srcId"], v["index"], v["r"], v["p"], v["left"],
                       v["width"])
      [] opcode = DrawCmd.Init -> cmdInit
      [] opcode \in {DrawCmd.Origin, DrawCmd.AllocScreen, DrawCmd.FreeScreen,
                     DrawCmd.Top, DrawCmd.Bottom} -> cmdIgnored
      [] OTHER -> cmdUnknown

----------------------------------------------------------------------------
(* Initial state: new DrawRenderer(canvas) inside a DrawDevice, which       *)
(* installs onFlush; the canvas is ScreenW x ScreenH.                       *)

ScreenSizes == {<<2, 1>>, <<1, 1>>}

InitRenderer(fallback) ==
    /\ images = [i \in {0} |->
                   [id |-> 0, width |-> 2, height |-> 1, chan |-> Channel_XRGB32,
                    repl |-> FALSE, r |-> Rect(0, 0, 2, 1), clipr |-> Rect(0, 0, 2, 1),
                    screenId |-> 0, canvas |-> 0]]
    /\ fonts = << >>
    /\ canvases = [k \in {0} |-> NewCanvas(2, 1)]
    /\ currentOp = SoverD
    /\ refreshRects = <<>>
    /\ onFlush = TRUE
    /\ useFontFallback \in fallback
    /\ phase = "idle"
    /\ remaining = 0
    /\ responses = <<>>
    /\ result = "none"
    /\ returned = NoValue
    /\ emitted = NoValue
    /\ last = [op |-> "none", a |-> <<>>, opWas |-> SoverD, pending |-> {}]
    /\ refreshLog = <<>>
    /\ sinceFlush = [flushed |-> FALSE, drew |-> FALSE, loaded |-> FALSE]

\* no reader or builder is at work outside processCommands
InitWith(fallback) ==
    /\ InitRenderer(fallback)
    /\ reader = NoReader
    /\ readOut = NoValue
    /\ builder = NoBuilder
    /\ client = NewClient
    /\ transport = NewTransport
    /\ device = NewDevice

----------------------------------------------------------------------------
(* Specification of the image store: allocation, free, clip, names, fonts   *)
(* and resize.  These are the handlers that change the image table, the     *)
(* font table or the records in them.                                       *)

Ids == {0, 1, 2}

AllocCmd(id, chan, repl, r, clipr, color) ==
    [id |-> id, screenId |-> 0, refresh |-> 0, chan |-> chan, repl |-> repl,
     r |-> r, clipr |-> clipr, color |-> color]

\* a red 1x1 tile whose clip rectangle reaches outside r; an image of empty
\* extent; an allocation under the display's id
StoreAllocs ==
    { AllocCmd(1, Channel_XRGB32, TRUE, Rect(0, 0, 1, 1), Rect(0, 0, 2, 1), <<255, 255, 0, 0>>),
      AllocCmd(2, Channel_GREY8, FALSE, Rect(1, 0, 1, 1), Rect(1, 0, 1, 1), <<0, 0, 0, 0>>),
      AllocCmd(0, Channel_XRGB32, FALSE, Rect(0, 0, 1, 1), Rect(0, 0, 1, 1), <<255, 255, 0, 0>>) }

StoreSetClips == { [id |-> 0, repl |-> FALSE, clipr |-> Rect(0, 0, 3, 1)] }

StoreInitFonts == { [id |-> 1, n |-> 1, ascent |-> 1] }

Next ==
    \/ \E n \in 0 .. MaxCmds : Begin(n)
    \/ Return
    \/ \E c \in StoreAllocs : Alloc(c)
    \/ \E id \in Ids : Free(id)
    \/ \E c \in StoreSetClips : SetClip(c)
    \/ NameImage(2)
    \/ NameImageLocal(1)
    \/ \E c \in StoreInitFonts : InitFont(c)
    \/ \E s \in ScreenSizes : Resize(s[1], s[2])
    \/ Ignored("origin")

Init == InitWith({TRUE})

Spec == Init /\ [][Next]_vars

----------------------------------------------------------------------------
(* Specification of the drawing opcodes and the operator they consume.  The *)
(* display is image 0; image 1 is a red tile that serves as source, mask,   *)
(* background and font image.                                               *)

Red == <<255, 255, 0, 0>>

Tile == AllocCmd(1, Channel_XRGB32, TRUE, Rect(0, 0, 1, 1), Rect(0, 0, 1, 1), Red)

\* DoutS is installed by setop in place of the default
DrawSetOps == {1}

Blit(id, srcId, maskId, r) ==
    [id |-> id, srcId |-> srcId, maskId |-> maskId, r |-> r,
     sp |-> Pt(0, 0), mp |-> Pt(0, 0)]

\* an unmasked blit, a masked blit, a masked blit with an empty rectangle
Draws ==
    { Blit(0, 1, 0, Rect(0, 0, 1, 1)),
      Blit(0, 1, 1, Rect(0, 0, 1, 1)),
      Blit(0, 1, 1, Rect(1, 0, 1, 1)) }

Lines ==
    { [id |-> 0, p0 |-> Pt(0, 0), p1 |-> Pt(0, 0), end0 |-> 0, end1 |-> 0,
       radius |-> 0, srcId |-> 1, sp |-> Pt(0, 0)] }

Ellipses ==
    { [filled |-> f, id |-> 0, srcId |-> 1, center |-> Pt(0, 0), a |-> 0, b |-> 0,
       thick |-> 0, sp |-> Pt(0, 0), alpha |-> 0, phi |-> 0] : f \in BOOLEAN }

\* an arc, and an arc with a negative radius
Arcs ==
    { [id |-> 0, srcId |-> 1, center |-> Pt(0, 0), a |-> a, b |-> 0,
       thick |-> 0, sp |-> Pt(0, 0), alpha |-> 0, phi |-> 90] : a \in {0, -1} }

Polys ==
    { [id |-> 0, pts |-> <<Pt(0, 0), Pt(0, 0)>>, end0 |-> 0, end1 |-> 0,
       radius |-> 0, srcId |-> 1, sp |-> Pt(0, 0)] }

FillPolys ==
    { [id |-> 0, pts |-> <<Pt(0, 0), Pt(0, 0), Pt(0, 0)>>, wind |-> 1,
       srcId |-> 1, sp |-> Pt(0, 0)] }

DrawInitFonts == { [id |-> 1, n |-> 1, ascent |-> 1] }

DrawLoadChars ==
    { [id |-> 1, srcId |-> 1, index |-> 0, r |-> Rect(0, 0, 1, 1), p |-> Pt(0, 0),
       left |-> 0, width |-> 1] }

Strings ==
    { [hasBg |-> h, id |-> 0, srcId |-> 1, fontId |-> 1, p |-> Pt(0, 1),
       clipr |-> Rect(0, 0, 2, 1), sp |-> Pt(0, 0), indices |-> <<0>>,
       bgId |-> 1, bgp |-> Pt(0, 0)] : h \in BOOLEAN }

NextDraw ==
    \/ \E n \in 1 .. MaxCmds : Begin(n)
    \/ Return
    \/ Alloc(Tile)
    \/ \E op \in DrawSetOps : SetOp(op)
    \/ \E c \in DrawInitFonts : InitFont(c)
    \/ \E c \in DrawLoadChars : LoadChar(c)
    \/ \E c \in Draws : Draw(c)
    \/ \E c \in Lines : Line(c)
    \/ \E c \in Ellipses : Ellipse(c)
    \/ \E c \in Arcs : Arc(c)
    \/ \E c \in Polys : Poly(c)
    \/ \E c \in FillPolys : FillPoly(c)
    \/ \E c \in Strings : String(c)
    \/ Flush

InitDraw == InitWith(BOOLEAN)

SpecDraw == InitDraw /\ [][NextDraw]_vars

----------------------------------------------------------------------------
(* Specification of the refresh accumulator, flush, and the failures that   *)
(* end a buffer.                                                            *)

\* blits onto the display, one of them with an empty rectangle, a blit onto
\* the tile, and a blit from an image that may not exist
RefreshDraws ==
    { Blit(0, 1, 0, Rect(0, 0, 1, 1)),
      Blit(0, 1, 0, Rect(1, 0, 2, 1)),
      Blit(0, 1, 0, Rect(1, 0, 1, 1)),
      Blit(1, 0, 0, Rect(0, 0, 1, 1)) }

\* one XRGB32 pixel for the display's second pixel
Loads ==
    { [compressed |-> FALSE, id |-> 0, r |-> Rect(1, 0, 2, 1), data |-> <<0, 255, 0, 0>>] }

\* a string with a background image that does not exist, clipped to the
\* display's first pixel
FailStrings ==
    { [hasBg |-> TRUE, id |-> 0, srcId |-> 0, fontId |-> 1, p |-> Pt(0, 1),
       clipr |-> Rect(0, 0, 1, 1), sp |-> Pt(0, 0), indices |-> <<0>>,
       bgId |-> 2, bgp |-> Pt(0, 0)] }

\* a setclip and an unload that name the tile, allocated or not
RefreshSetClips == { [id |-> 1, repl |-> TRUE, clipr |-> Rect(0, 0, 1, 1)] }

Unloads == { [id |-> 1, r |-> Rect(0, 0, 1, 1)] }

NextRefresh ==
    \/ \E n \in 1 .. MaxCmds : Begin(n)
    \/ Return
    \/ Alloc(Tile)
    \/ \E c \in RefreshDraws : Draw(c)
    \/ \E c \in Lines : Line(c)
    \/ \E c \in Loads : Load(c)
    \/ \E c \in FailStrings : String(c)
    \/ \E c \in RefreshSetClips : SetClip(c)
    \/ \E c \in Unloads : Unload(c)
    \/ Flush
    \/ InitCmd
    \/ Unknown
    \/ Truncated("draw")

InitRefresh == InitWith({TRUE})

SpecRefresh == InitRefresh /\ [][NextRefresh]_vars

----------------------------------------------------------------------------
(* Specification of the glyph cache: initfont, loadchar and string on a     *)
(* font of two glyphs whose image is the tile.                              *)

FontInitFonts == { [id |-> 1, n |-> 2, ascent |-> 1] }

\* glyph 0 with a raster one pixel wide and advance 1; glyph 1 with an empty
\* raster and advance 2; an index past the end of the font
FontLoadChars ==
    { [id |-> 1, srcId |-> 1, index |-> 0, r |-> Rect(0, 0, 1, 1), p |-> Pt(0, 0),
       left |-> 0, width |-> 1],
      [id |-> 1, srcId |-> 1, index |-> 1, r |-> Rect(1, 0, 1, 1), p |-> Pt(0, 0),
       left |-> 0, width |-> 2],
      [id |-> 1, srcId |-> 1, index |-> 2, r |-> Rect(0, 0, 1, 1), p |-> Pt(0, 0),
       left |-> 0, width |-> 1] }

FontStrings ==
    { [hasBg |-> FALSE, id |-> 0, srcId |-> 1, fontId |-> 1, p |-> Pt(0, 1),
       clipr |-> Rect(0, 0, 2, 1), sp |-> Pt(0, 0), indices |-> ix,
       bgId |-> 0, bgp |-> Pt(0, 0)] : ix \in {<<0>>, <<1>>, <<0, 0>>, <<2>>} }

NextFont ==
    \/ \E n \in 1 .. MaxCmds : Begin(n)
    \/ Return
    \/ Alloc(Tile)
    \/ \E c \in FontInitFonts : InitFont(c)
    \/ \E c \in FontLoadChars : LoadChar(c)
    \/ \E c \in FontStrings : String(c)
    \/ Flush

InitFontSpec == InitWith(BOOLEAN)

SpecFont == InitFontSpec /\ [][NextFont]_vars

----------------------------------------------------------------------------
(* Specification of the responses: the commands that answer (init, string,  *)
(* load, unload) next to commands that do not (flush, setop).               *)

\* strings on a font that is not registered, onto the display
RespStrings ==
    { [hasBg |-> b, id |-> 0, srcId |-> 0, fontId |-> 1, p |-> Pt(0, 1),
       clipr |-> Rect(0, 0, 2, 1), sp |-> Pt(0, 0), indices |-> <<0>>,
       bgId |-> 0, bgp |-> Pt(0, 0)] : b \in BOOLEAN }

\* one raw pixel, and a two-byte run that expands to two pixels
RespLoads ==
    { [compressed |-> FALSE, id |-> 0, r |-> Rect(1, 0, 2, 1), data |-> <<0, 255, 0, 0>>],
      [compressed |-> TRUE, id |-> 0, r |-> Rect(0, 0, 2, 1), data |-> <<7, 255>>] }

RespUnloads == { [id |-> 0, r |-> Rect(0, 0, 1, 1)] }

NextResp ==
    \/ \E n \in 0 .. MaxCmds : Begin(n)
    \/ Return
    \/ InitCmd
    \/ \E c \in RespStrings : String(c)
    \/ \E c \in RespLoads : Load(c)
    \/ \E c \in RespUnloads : Unload(c)
    \/ \E op \in DrawSetOps : SetOp(op)
    \/ Flush

InitResp == InitWith(BOOLEAN)

SpecResp == InitResp /\ [][NextResp]_vars

----------------------------------------------------------------------------
(* Specification of the pixel transfer: raw loads into the display and into *)
(* an image of each channel, and unloads of the same rectangles.            *)

PixelChannels == {Channel_XRGB32, Channel_RGB24, Channel_GREY8}

PixelAllocs ==
    { AllocCmd(1, chan, FALSE, Rect(0, 0, 2, 1), Rect(0, 0, 2, 1), <<255, 0, 0, 0>>)
      : chan \in PixelChannels }

PixelRect == Rect(1, 0, 2, 1)

\* one pixel of each channel: XRGB32 with the x byte set and clear, RGB24, GREY8
PixelData == {<<255, 1, 2, 3>>, <<0, 1, 2, 3>>, <<1, 2, 3>>, <<7>>}

PixelLoads ==
    { [compressed |-> FALSE, id |-> 1, r |-> PixelRect, data |-> d] : d \in PixelData }
    \cup { [compressed |-> FALSE, id |-> 0, r |-> PixelRect, data |-> <<0, 1, 2, 3>>] }

PixelUnloads == { [id |-> id, r |-> PixelRect] : id \in {0, 1} }

NextPixel ==
    \/ \E n \in 1 .. MaxCmds : Begin(n)
    \/ Return
    \/ \E c \in PixelAllocs : Alloc(c)
    \/ \E c \in PixelLoads : Load(c)
    \/ \E c \in PixelUnloads : Unload(c)
    \/ Flush

InitPixel == InitWith({TRUE})

SpecPixel == InitPixel /\ [][NextPixel]_vars

----------------------------------------------------------------------------
(* Specification of the display surface: the replicated tile is drawn over  *)
(* the whole display, the display is given a clip rectangle of one pixel,   *)
(* and a name command makes id 2 an alias of the display.                   *)

SurfaceSetClips == { [id |-> 0, repl |-> FALSE, clipr |-> Rect(0, 0, 1, 1)] }

\* the tile over both pixels of the display; the tile onto the second pixel,
\* through id 0 and through the alias
SurfaceDraws ==
    { Blit(0, 1, 0, Rect(0, 0, 2, 1)),
      Blit(0, 1, 0, Rect(1, 0, 2, 1)),
      Blit(2, 1, 0, Rect(1, 0, 2, 1)) }

NextSurface ==
    \/ \E n \in 1 .. MaxCmds : Begin(n)
    \/ Return
    \/ Alloc(Tile)
    \/ \E c \in SurfaceSetClips : SetClip(c)
    \/ NameImage(2)
    \/ \E c \in SurfaceDraws : Draw(c)
    \/ Flush

InitSurface == InitWith({TRUE})

SpecSurface == InitSurface /\ [][NextSurface]_vars

----------------------------------------------------------------------------
(* Specification of the DrawReader: a reader is built over a view of an     *)
(* underlying array, then read primitives are called on it until one throws. *)

MaxBuf == 4

ByteSamples == {0, 2, 129}

Buffers == UNION {[1..n -> ByteSamples] : n \in 0..MaxBuf}

CoordOlds == {0, 64}

\* one call of a read primitive on a reader no call has thrown on
Read(op, res) ==
    /\ \A g \in readOut : g.ok
    /\ reader' = res.r
    /\ readOut' = {[op |-> op, ok |-> res.ok, v |-> res.v, from |-> reader.offset]}
    /\ UNCHANGED <<rendererVars, builder, clientVars>>

ReadByte == Read("byte", readByte(reader))

ReadShort == Read("short", readShort(reader))

ReadLong == Read("long", readLong(reader))

ReadPoint == Read("point", readPoint(reader))

ReadRect == Read("rect", readRect(reader))

ReadString == Read("string", readString(reader))

\* cmdLoad: readBytes(reader.remaining)
ReadBytes == ReaderRemaining(reader) >= 0 /\ Read("bytes", readBytes(reader, ReaderRemaining(reader)))

ReadCoord(old) == Read("coord", readCoord(reader, old))

NextReader ==
    \/ ReadByte
    \/ ReadShort
    \/ ReadLong
    \/ ReadPoint
    \/ ReadRect
    \/ ReadString
    \/ ReadBytes
    \/ \E old \in CoordOlds : ReadCoord(old)

InitReader ==
    /\ InitRenderer({TRUE})
    /\ client = NewClient
    /\ transport = NewTransport
    /\ device = NewDevice
    /\ readOut = NoValue
    /\ builder = NoBuilder
    /\ \E buf \in Buffers : \E off \in 0..Len(buf) : \E len \in 0..(Len(buf) - off) :
           reader = DrawReader(buf, off, len)

SpecReader == InitReader /\ [][NextReader]_vars

----------------------------------------------------------------------------
(* Specification of the delta-coord codec: a point list is handed to the    *)
(* poly or fillPoly builder, and the bytes it returns are dispatched.       *)

MaxPts == 2

CoordValues == {0 - 4194304, -65, -64, -1, 0, 63, 64, 4194303}

Points == UNION {{Pt(v, v), Pt(v, 0 - 1 - v)} : v \in CoordValues}

PointLists == UNION {[1..n -> Points] : n \in 1..MaxPts}

BuildPoly ==
    /\ builder.data = <<>>
    /\ builder' = [builder EXCEPT
                     !.data = poly(0, builder.pts, 0, 0, 0, 0, Pt(0, 0))]
    /\ UNCHANGED <<rendererVars, reader, readOut, clientVars>>

BuildFillPoly ==
    /\ builder.data = <<>>
    /\ builder' = [builder EXCEPT !.data = fillPoly(0, builder.pts, 1, 0, Pt(0, 0))]
    /\ UNCHANGED <<rendererVars, reader, readOut, clientVars>>

\* processCommand reads the opcode and hands the reader to the handler
Decode(opcode, op, res) ==
    /\ builder.data # <<>>
    /\ readOut = NoValue
    /\ builder.data[1] = opcode
    /\ reader' = res.r
    /\ readOut' = {[op |-> op, ok |-> res.ok, v |-> res.v, from |-> 0]}
    /\ UNCHANGED <<rendererVars, builder, clientVars>>

DecodePoly ==
    Decode(DrawCmd_Poly, "poly",
           readPolyParams(readByte(DrawReader(builder.data, 0, Len(builder.data))).r))

DecodeFillPoly ==
    Decode(DrawCmd_FillPoly, "fillpoly",
           readFillPolyParams(readByte(DrawReader(builder.data, 0, Len(builder.data))).r))

NextCoord ==
    \/ BuildPoly
    \/ BuildFillPoly
    \/ DecodePoly
    \/ DecodeFillPoly

InitCoord ==
    /\ InitRenderer({TRUE})
    /\ client = NewClient
    /\ transport = NewTransport
    /\ device = NewDevice
    /\ reader = NoReader
    /\ readOut = NoValue
    /\ builder \in {[data |-> <<>>, pts |-> l] : l \in PointLists}

SpecCoord == InitCoord /\ [][NextCoord]_vars

----------------------------------------------------------------------------
(* Specification of the polygon decoders: a buffer of one or two poly /     *)
(* fillpoly commands, whose point arrays mix the one-byte and the           *)
(* three-byte form, is dispatched command by command.                       *)

\* delta +1, delta -1, absolute 5, absolute -4194304
CoordEncodings == {<<1>>, <<127>>, <<133, 0, 0>>, <<128, 0, 128>>}

RECURSIVE Flatten(_)
Flatten(ss) == IF ss = <<>> THEN <<>> ELSE Head(ss) \o Flatten(Tail(ss))

\* the point arrays of 1 .. MaxPts points
PointArrays ==
    UNION {{[n |-> k - 1, bytes |-> Flatten(f)] : f \in [1..(2 * k) -> CoordEncodings]}
           : k \in 1..MaxPts}

\* opcode, dstid, n, four longs, sp, then the point array
PolyCmdBytes(opcode, arr) ==
    writeByte(opcode) \o writeLong(0) \o writeShort(arr.n)
    \o writeLong(0) \o writeLong(0) \o writeLong(0) \o writeLong(0)
    \o writePoint(Pt(0, 0)) \o arr.bytes

PolyOpcodes == {DrawCmd_Poly, DrawCmd_FillPoly}

\* a command that leaves (5, -4194304) behind as the last point it decoded
EarlierPolyCmds ==
    {PolyCmdBytes(o, [n |-> 0, bytes |-> <<133, 0, 0, 128, 0, 128>>]) : o \in PolyOpcodes}

PolyBuffers ==
    LET cmds == {PolyCmdBytes(o, arr) : o \in PolyOpcodes, arr \in PointArrays}
    IN  cmds \cup {e \o c : e \in EarlierPolyCmds, c \in cmds}

\* one turn of the processCommands loop on the reader
Dispatch(opcode, op, res) ==
    /\ ReaderRemaining(reader) > 0
    /\ \A g \in readOut : g.ok
    /\ readByte(reader).v = opcode
    /\ reader' = res.r
    /\ readOut' = {[op |-> op, ok |-> res.ok, v |-> res.v, from |-> reader.offset]}
    /\ UNCHANGED <<rendererVars, builder, clientVars>>

DispatchPoly == Dispatch(DrawCmd_Poly, "poly", readPolyParams(readByte(reader).r))

DispatchFillPoly ==
    Dispatch(DrawCmd_FillPoly, "fillpoly", readFillPolyParams(readByte(reader).r))

NextPoly ==
    \/ DispatchPoly
    \/ DispatchFillPoly

InitPoly ==
    /\ InitRenderer({TRUE})
    /\ client = NewClient
    /\ transport = NewTransport
    /\ device = NewDevice
    /\ readOut = NoValue
    /\ builder = NoBuilder
    /\ \E buf \in PolyBuffers : reader = DrawReader(buf, 0, Len(buf))

SpecPoly == InitPoly /\ [][NextPoly]_vars

----------------------------------------------------------------------------
(* Specification of the RLE decoder: decompressPixels is applied to a       *)
(* compressed byte run, for a rectangle of some width and height and an     *)
(* image of some channel.                                                   *)

\* repeat once, repeat nine times, two literals, a literal run longer than the input
RleBytes == {0, 8, 129, 171}

RleBuffers == UNION {[1..n -> RleBytes] : n \in 0..MaxBuf}

RleExtents == 1..2

\* cmdLoad on a compressed load: the bytes up to the end of the buffer are decoded
DecompressPixels(width, height, chan) ==
    /\ readOut = NoValue
    /\ LET data == readBytes(reader, ReaderRemaining(reader))
       IN  /\ reader' = data.r
           /\ readOut' = {[op |-> "decompress", ok |-> data.ok,
                           v |-> decompressPixels(data.v, width, height, chan),
                           from |-> reader.offset,
                           width |-> width, height |-> height, chan |-> chan]}
    /\ UNCHANGED <<rendererVars, builder, clientVars>>

NextRle ==
    \E width \in RleExtents, height \in RleExtents, chan \in PixelChannels :
        DecompressPixels(width, height, chan)

InitRle ==
    /\ InitRenderer({TRUE})
    /\ client = NewClient
    /\ transport = NewTransport
    /\ device = NewDevice
    /\ readOut = NoValue
    /\ builder = NoBuilder
    /\ \E buf \in RleBuffers : reader = DrawReader(buf, 0, Len(buf))

SpecRle == InitRle /\ [][NextRle]_vars

----------------------------------------------------------------------------
(* Specification of the command stream: the bytes of one to MaxSeq builder  *)
(* calls are concatenated and handed to processCommands, which dispatches   *)
(* opcode after opcode.                                                     *)

MaxSeq == 2

\* one call of each builder
WireCmds ==
    { [cmd |-> "alloc", id |-> 1, screenId |-> 0, refresh |-> 0, chan |-> Channel_XRGB32,
       repl |-> TRUE, r |-> Rect(0, 0, 1, 1), clipr |-> Rect(0, -1, 1, 1), color |-> 255],
      [cmd |-> "free", id |-> -1],
      [cmd |-> "draw", dstId |-> 0, srcId |-> 1, maskId |-> 2, r |-> Rect(0, 0, 2, 1),
       sp |-> Pt(3, 4), mp |-> Pt(-5, 6)],
      [cmd |-> "line", dstId |-> 0, p0 |-> Pt(1, 2), p1 |-> Pt(3, 4), end0 |-> 5,
       end1 |-> 6, radius |-> 7, srcId |-> 1, sp |-> Pt(8, 9)],
      [cmd |-> "ellipse", dstId |-> 0, srcId |-> 1, center |-> Pt(1, 2), a |-> 3, b |-> 4,
       thick |-> 5, sp |-> Pt(6, 7), alpha |-> 0, phi |-> 0],
      [cmd |-> "ellipseFill", dstId |-> 0, srcId |-> 1, center |-> Pt(1, 2), a |-> 3,
       b |-> 4, sp |-> Pt(6, 7), alpha |-> 0, phi |-> 0],
      [cmd |-> "arc", dstId |-> 0, srcId |-> 1, center |-> Pt(1, 2), a |-> 3, b |-> 4,
       thick |-> 5, sp |-> Pt(6, 7), alpha |-> 5760, phi |-> -64],
      [cmd |-> "poly", dstId |-> 0, pts |-> <<Pt(1, 2), Pt(300, -300)>>, end0 |-> 1,
       end1 |-> 2, radius |-> 3, srcId |-> 1, sp |-> Pt(0, 0)],
      [cmd |-> "fillPoly", dstId |-> 0, pts |-> <<Pt(0, 0), Pt(63, -64), Pt(0, 64)>>,
       wind |-> 1, srcId |-> 1, sp |-> Pt(0, 0)],
      [cmd |-> "string", dstId |-> 0, srcId |-> 1, fontId |-> 2, p |-> Pt(0, 1),
       clipr |-> Rect(0, 0, 2, 1), sp |-> Pt(0, 0), indices |-> <<0, 65535>>],
      [cmd |-> "stringBg", dstId |-> 0, srcId |-> 1, fontId |-> 2, p |-> Pt(0, 1),
       clipr |-> Rect(0, 0, 2, 1), sp |-> Pt(0, 0), bgId |-> 3, bgp |-> Pt(1, 1),
       indices |-> <<7>>],
      [cmd |-> "unload", id |-> 0, r |-> Rect(0, 0, 1, 1)],
      [cmd |-> "flush"],
      [cmd |-> "origin", id |-> 1, log |-> Pt(1, 2), scr |-> Pt(3, 4)],
      [cmd |-> "setClip", dstId |-> 0, repl |-> FALSE, clipr |-> Rect(0, 0, 1, 1)],
      [cmd |-> "setOp", op |-> 10],
      [cmd |-> "allocScreen", id |-> 1, imageId |-> 0, fillId |-> 2, isPublic |-> TRUE],
      [cmd |-> "freeScreen", id |-> 1],
      [cmd |-> "top", ids |-> <<1, 2>>],
      [cmd |-> "bottom", ids |-> <<>>],
      [cmd |-> "nameImage", id |-> 2, inFlag |-> TRUE, name |-> <<115, 99, 114>>],
      [cmd |-> "nameImageLocal", id |-> 2, name |-> <<>>],
      [cmd |-> "initFont", fontId |-> 1, nchars |-> 256, ascent |-> 12],
      [cmd |-> "loadChar", fontId |-> 1, srcId |-> 0, index |-> 300, r |-> Rect(0, 0, 1, 1),
       p |-> Pt(0, 0), left |-> -1, width |-> 8],
      [cmd |-> "init"] }

\* loads whose pixel data are bytes that are opcodes, or nothing
WireLoads ==
    { [cmd |-> "load", id |-> 0, r |-> Rect(0, 0, 1, 1), data |-> <<118, 73, 0, 255>>],
      [cmd |-> "loadCompressed", id |-> 0, r |-> Rect(0, 0, 1, 1), data |-> <<>>] }

\* a name of 256 bytes, each of them the letter v
LongName == [cmd |-> "nameImage", id |-> 2, inFlag |-> TRUE, name |-> [i \in 1 .. 256 |-> 118]]

Flush1 == [cmd |-> "flush"]

WireSequences ==
    UNION {[1 .. n -> WireCmds \cup WireLoads] : n \in 1 .. MaxSeq}
    \cup { <<LongName, Flush1>> }

\* the caller concatenates what the builders return and calls processCommands,
\* which wraps the buffer in a DrawReader
BuildWire ==
    /\ reader = NoReader
    /\ LET data == Flatten([i \in 1 .. Len(builder.cmds) |-> DrawProtocol(builder.cmds[i])])
       IN  /\ builder' = [builder EXCEPT !.data = data]
           /\ reader' = DrawReader(data, 0, Len(data))
    /\ UNCHANGED <<rendererVars, readOut, clientVars>>

\* one turn of the processCommands loop: the opcode is read and its handler
\* reads its parameters; k counts the turns
DispatchWire ==
    /\ reader # NoReader
    /\ ReaderRemaining(reader) > 0
    /\ \A g \in readOut : g.ok
    /\ LET cmd == readByte(reader)
           res == processCommand(cmd.v, cmd.r)
       IN  /\ reader' = res.r
           /\ readOut' = {[op |-> cmd.v, ok |-> res.ok, v |-> res.v, from |-> reader.offset,
                           k |-> IF readOut = {} THEN 1
                                 ELSE (CHOOSE g \in readOut : TRUE).k + 1]}
    /\ UNCHANGED <<rendererVars, builder, clientVars>>

NextWire ==
    \/ BuildWire
    \/ DispatchWire

InitWire ==
    /\ InitRenderer({TRUE})
    /\ client = NewClient
    /\ transport = NewTransport
    /\ device = NewDevice
    /\ reader = NoReader
    /\ readOut = NoValue
    /\ builder \in {[data |-> <<>>, cmds |-> s] : s \in WireSequences}

SpecWire == InitWire /\ [][NextWire]_vars

----------------------------------------------------------------------------
(* Specification of buffers that end inside a command: the tile is          *)
(* allocated by a complete command, and the command after it is cut at      *)
(* every byte of its parameters.  The buffer handed to processCommands is   *)
(* either an array of its own or a view of the array holding the whole      *)
(* command.                                                                 *)

CutTile ==
    [cmd |-> "alloc", id |-> 1, screenId |-> 0, refresh |-> 0, chan |-> Channel_XRGB32,
     repl |-> TRUE, r |-> Rect(0, 0, 1, 1), clipr |-> Rect(0, 0, 1, 1), color |-> 2147418112]

CutCmds ==
    { [cmd |-> "free", id |-> 1],
      [cmd |-> "setOp", op |-> 10],
      [cmd |-> "setClip", dstId |-> 0, repl |-> TRUE, clipr |-> Rect(0, 0, 1, 1)],
      [cmd |-> "alloc", id |-> 2, screenId |-> 0, refresh |-> 0, chan |-> Channel_GREY8,
       repl |-> FALSE, r |-> Rect(0, 0, 1, 1), clipr |-> Rect(0, 0, 1, 1), color |-> 255],
      [cmd |-> "draw", dstId |-> 0, srcId |-> 1, maskId |-> 0, r |-> Rect(0, 0, 1, 1),
       sp |-> Pt(0, 0), mp |-> Pt(0, 0)],
      [cmd |-> "poly", dstId |-> 0, pts |-> <<Pt(0, 0), Pt(1, 0)>>, end0 |-> 0,
       end1 |-> 0, radius |-> 0, srcId |-> 1, sp |-> Pt(0, 0)],
      [cmd |-> "string", dstId |-> 0, srcId |-> 1, fontId |-> 1, p |-> Pt(0, 1),
       clipr |-> Rect(0, 0, 2, 1), sp |-> Pt(0, 0), indices |-> <<0>>],
      [cmd |-> "load", id |-> 0, r |-> Rect(0, 0, 1, 1), data |-> <<0, 0, 255, 0>>],
      [cmd |-> "initFont", fontId |-> 1, nchars |-> 2, ascent |-> 1],
      [cmd |-> "loadChar", fontId |-> 1, srcId |-> 0, index |-> 0, r |-> Rect(0, 0, 1, 1),
       p |-> Pt(0, 0), left |-> 0, width |-> 1],
      [cmd |-> "nameImage", id |-> 2, inFlag |-> TRUE, name |-> <<115, 99, 114>>],
      [cmd |-> "nameImageLocal", id |-> 3, name |-> <<115>>] }

\* the opcode and the parameters of a command; the pixel data of a load are
\* whatever follows them
ParamLen(c) == IF c.cmd \in {"load", "loadCompressed"} THEN 21 ELSE Len(DrawProtocol(c))

\* processCommands(data): the loop starts on a new DrawReader
BeginCut ==
    /\ readOut = NoValue
    /\ Begin(Len(builder.cmds))

\* one turn of the loop: the opcode is read, the handler reads its parameters
\* and, unless a read has thrown, acts on them
DispatchCut ==
    /\ phase = "running"
    /\ ReaderRemaining(reader) > 0
    /\ LET cmd == readByte(reader)
           res == processCommand(cmd.v, cmd.r)
       IN  /\ reader' = res.r
           /\ readOut' = {[op |-> cmd.v, ok |-> res.ok, from |-> reader.offset,
                           k |-> IF readOut = {} THEN 1
                                 ELSE (CHOOSE g \in readOut : TRUE).k + 1]}
           /\ IF res.ok THEN runHandler(cmd.v, res.v)
              ELSE /\ UNCHANGED <<images, fonts, canvases, currentOp, refreshRects,
                                  refreshLog, emitted>>
                   /\ Throw
    /\ UNCHANGED <<onFlush, useFontFallback, last, sinceFlush, builder, clientVars>>

\* reader.remaining is no longer positive: the responses are returned
ReturnCut ==
    /\ phase = "running"
    /\ ReaderRemaining(reader) <= 0
    /\ phase' = "idle"
    /\ result' = "returned"
    /\ returned' = {responses}
    /\ UNCHANGED <<images, fonts, canvases, currentOp, refreshRects, refreshLog, emitted,
                   onFlush, useFontFallback, last, sinceFlush, remaining, responses>>
    /\ UNCHANGED codecVars
    /\ UNCHANGED clientVars

NextCut ==
    \/ BeginCut
    \/ DispatchCut
    \/ ReturnCut

InitCut ==
    /\ InitRenderer({TRUE})
    /\ client = NewClient
    /\ transport = NewTransport
    /\ device = NewDevice
    /\ readOut = NoValue
    /\ \E c \in CutCmds : \E n \in 1 .. (ParamLen(c) - 1) : \E ownArray \in BOOLEAN :
          LET whole == DrawProtocol(CutTile) \o DrawProtocol(c)
              len == Len(DrawProtocol(CutTile)) + n
          IN  /\ builder = [data |-> whole, cmds |-> <<CutTile, c>>]
              /\ reader = IF ownArray THEN DrawReader(SubSeq(whole, 1, len), 0, len)
                          ELSE DrawReader(whole, 0, len)

SpecCut == InitCut /\ [][NextCut]_vars

----------------------------------------------------------------------------
(* Specification of the transport: the application connects, the server     *)
(* sends a stream of messages that arrives in chunks of any length, the     *)
(* socket closes at any moment and the reconnect timer connects again.      *)

\* the messages of a stream
MaxMsgs == 2

\* an Rclunk of 7 bytes and an Rwrite-like message of 8, size first
Msgs == { <<7, 0, 0, 0, 121, 1, 0>>, <<8, 0, 0, 0, 119, 2, 0, 9>> }

Streams == UNION {[1 .. n -> Msgs] : n \in 1 .. MaxMsgs}

\* the number of bytes of stream before message k
RECURSIVE StreamOffset(_, _)
StreamOffset(stream, k) ==
    IF k <= 1 THEN 0 ELSE StreamOffset(stream, k - 1) + Len(stream[k - 1])

\* arrived bytes end inside the size field of a message
InsideSize(stream, arrived) ==
    \E k \in 1 .. Len(stream) :
        /\ arrived > StreamOffset(stream, k)
        /\ arrived < StreamOffset(stream, k) + 4

\* the application calls connect()
Connect ==
    /\ transport.ws = "none"
    /\ transport' = connect(transport)
    /\ UNCHANGED <<rendererVars, codecVars, client, device>>

\* ws.onopen
Open ==
    /\ transport.ws = "connecting"
    /\ transport' = [transport EXCEPT !.ws = "open"]
    /\ UNCHANGED <<rendererVars, codecVars, client, device>>

\* the server sends the messages of s on the connection
Serve(s) ==
    /\ transport.ws = "open"
    /\ transport.stream = <<>>
    /\ transport' = [transport EXCEPT !.stream = s, !.inFlight = Flatten(s)]
    /\ UNCHANGED <<rendererVars, codecVars, client, device>>

\* ws.onmessage: the next n bytes of the stream arrive as one chunk
Chunk(n) ==
    /\ transport.ws = "open"
    /\ ~transport.hung
    /\ n \in 1 .. Len(transport.inFlight)
    /\ LET t == handleData(transport, SubSeq(transport.inFlight, 1, n))
           arrived == Len(Flatten(transport.stream)) - Len(transport.inFlight) + n
       IN  transport' = [t EXCEPT
                           !.inFlight = SubSeq(@, n + 1, Len(@)),
                           !.sizeCut = @ \/ InsideSize(transport.stream, arrived)]
    /\ UNCHANGED <<rendererVars, codecVars, client, device>>

\* ws.onclose, while connecting or open: onDisconnect stops the console
\* reads and the reconnect is scheduled; the requests on the wire and the
\* fids bound on the server are gone with the connection
Close ==
    /\ transport.ws \in {"connecting", "open"}
    /\ transport' = onclose(transport)
    /\ device' = stopReading(device)
    /\ client' = [client EXCEPT !.wire = {}, !.srvFids = {}]
    /\ UNCHANGED <<rendererVars, codecVars>>

\* the timer of scheduleReconnect fires
Reconnect ==
    /\ transport.reconnectTimer
    /\ transport.conn < MaxConns
    /\ transport' = connect([transport EXCEPT !.reconnectTimer = FALSE])
    /\ UNCHANGED <<rendererVars, codecVars, client, device>>

NextTransport ==
    \/ Connect
    \/ Open
    \/ \E s \in Streams : Serve(s)
    \/ \E n \in 1 .. (MaxMsgs * 8) : Chunk(n)
    \/ Close
    \/ Reconnect

InitTransport == InitWith({TRUE})

SpecTransport == InitTransport /\ [][NextTransport]_vars

----------------------------------------------------------------------------
(* Specification of the writes of the devices: the msize is negotiated, the *)
(* console writes buffers and the draw device sends command buffers; the    *)
(* server acknowledges any number of the bytes of a Twrite, or answers      *)
(* Rerror.  The socket stays open.                                          *)

Msizes == {IOHDRSZ + 1, IOHDRSZ + 2, 8192}

\* version(): the Rversion sets msize, before any file is open
Negotiate(m) ==
    /\ device.w.at = "idle"
    /\ device.d.at = "idle"
    /\ client.msize # m
    /\ client' = [client EXCEPT !.msize = m]
    /\ UNCHANGED <<rendererVars, codecVars, linkVars>>

ConsWrite(len) ==
    /\ device.w.at # "awaiting"
    /\ device' = [device EXCEPT !.w = consWrite(client, len)]
    /\ UNCHANGED <<rendererVars, codecVars, client, transport>>

\* the Rwrite of the Twrite of ConsDevice.write
ConsRwrite(count) ==
    /\ device.w.at = "awaiting"
    /\ count \in 0 .. device.w.chunk
    /\ device' = [device EXCEPT !.w = consWrite_acked(client, @, count)]
    /\ UNCHANGED <<rendererVars, codecVars, client, transport>>

AnyRwrite == \E count \in 0 .. MaxData : ConsRwrite(count)

\* an Rerror rejects client.write, and ConsDevice.write with it
ConsRerror ==
    /\ device.w.at = "awaiting"
    /\ device' = [device EXCEPT !.w.at = "failed"]
    /\ UNCHANGED <<rendererVars, codecVars, client, transport>>

SendCommands(len) ==
    /\ device.d.at \in {"idle", "done", "failed"}
    /\ device' = [device EXCEPT !.d = sendCommands(client, len)]
    /\ UNCHANGED <<rendererVars, codecVars, client, transport>>

\* the Rwrite of sendCommands: its count is not looked at, the read follows
SendRwrite ==
    /\ device.d.at = "writing"
    /\ device' = [device EXCEPT !.d.at = "reading"]
    /\ UNCHANGED <<rendererVars, codecVars, client, transport>>

\* the Rread of sendCommands: the response is returned
SendRread ==
    /\ device.d.at = "reading"
    /\ device' = [device EXCEPT !.d.at = "done"]
    /\ UNCHANGED <<rendererVars, codecVars, client, transport>>

SendRerror ==
    /\ device.d.at \in {"writing", "reading"}
    /\ device' = [device EXCEPT !.d.at = "failed"]
    /\ UNCHANGED <<rendererVars, codecVars, client, transport>>

NextDevice ==
    \/ \E m \in Msizes : Negotiate(m)
    \/ \E len \in 0 .. MaxData : ConsWrite(len)
    \/ AnyRwrite
    \/ ConsRerror
    \/ \E len \in 1 .. MaxData : SendCommands(len)
    \/ SendRwrite
    \/ SendRread
    \/ SendRerror

InitDevice == InitWith({TRUE})

\* the server answers every Twrite
SpecDevice == InitDevice /\ [][NextDevice]_vars /\ WF_vars(AnyRwrite)

----------------------------------------------------------------------------
(* Specification of the console reads: the session starts the pipelined     *)
(* reads when the socket has opened, the reads resolve or are rejected, the *)
(* socket closes, which stops the reads, and is reconnected.                *)

Depths == {1, 2}

\* startReading(N), called by the session set-up once the console is open:
\* the first time, or after a stopReading
StartReading(n) ==
    /\ transport.ws = "open"
    /\ ~device.reading
    /\ device.awaiting + device.sleeping + n <= MaxLoops
    /\ device' = startReading(device, n)
    /\ UNCHANGED <<rendererVars, codecVars, client, transport>>

StopReading ==
    /\ device.reading
    /\ device' = stopReading(device)
    /\ UNCHANGED <<rendererVars, codecVars, client, transport>>

\* an Rread arrives for one of the reads
ReadResolved ==
    /\ transport.ws = "open"
    /\ device.awaiting > 0
    /\ device' = readLoop_resolved(device)
    /\ UNCHANGED <<rendererVars, codecVars, client, transport>>

\* an Rerror arrives, or the send of the read threw
ReadRejected ==
    /\ device.awaiting > 0
    /\ device' = readLoop_rejected(device)
    /\ UNCHANGED <<rendererVars, codecVars, client, transport>>

\* the timer of a loop that waits after an error fires
Woken ==
    /\ device.sleeping > 0
    /\ device' = readLoop_woken(device)
    /\ UNCHANGED <<rendererVars, codecVars, client, transport>>

NextReads ==
    \/ Connect
    \/ Open
    \/ Close
    \/ Reconnect
    \/ \E n \in Depths : StartReading(n)
    \/ StopReading
    \/ ReadResolved
    \/ ReadRejected
    \/ Woken

InitReads == InitWith({TRUE})

SpecReads == InitReads /\ [][NextReads]_vars

----------------------------------------------------------------------------
(* Specification of the glyph tables: fonts of several sizes are            *)
(* initialised on the tile, re-initialised and freed, and loadchar stores   *)
(* glyphs of several heights in them.                                       *)

GlyphInitFonts == { [id |-> 1, n |-> n, ascent |-> a] : n \in {-2, -1, 0, 2}, a \in {1, 2} }

\* glyphs that end at row 1, 2 or 3, for the two indices of the font and for
\* an index past its end; and a glyph whose source image does not exist
GlyphLoadChars ==
    { [id |-> 1, srcId |-> 1, index |-> i, r |-> r, p |-> Pt(0, 0), left |-> 0, width |-> 1]
        : i \in 0 .. 2, r \in {Rect(0, 0, 1, 1), Rect(1, 0, 1, 2), Rect(0, 0, 1, 3)} }
    \cup { [id |-> 1, srcId |-> 5, index |-> 0, r |-> Rect(0, 0, 1, 3), p |-> Pt(0, 0),
             left |-> 0, width |-> 1] }

NextGlyph ==
    \/ \E n \in 1 .. MaxCmds : Begin(n)
    \/ Return
    \/ Alloc(Tile)
    \/ Free(1)
    \/ \E c \in GlyphInitFonts : InitFont(c)
    \/ \E c \in GlyphLoadChars : LoadChar(c)

InitGlyph == InitWith({TRUE})

SpecGlyph == InitGlyph /\ [][NextGlyph]_vars

----------------------------------------------------------------------------
(* Specification of the operator: setop installs S, and blits, some of them *)
(* from an image that does not exist yet, follow it across non-drawing      *)
(* opcodes and buffers.                                                     *)

\* S (copy) is installed in place of the default
OpSetOps == {10}

OpDraws == { Blit(0, 1, 0, Rect(0, 0, 1, 1)) }

OpLoads == { [compressed |-> FALSE, id |-> 0, r |-> Rect(1, 0, 2, 1), data |-> <<0, 255, 0, 0>>] }

NextOp ==
    \/ \E n \in 1 .. MaxCmds : Begin(n)
    \/ Return
    \/ \E op \in OpSetOps : SetOp(op)
    \/ Alloc(Tile)
    \/ Free(1)
    \/ \E c \in SurfaceSetClips : SetClip(c)
    \/ \E c \in OpLoads : Load(c)
    \/ \E c \in RespUnloads : Unload(c)
    \/ Flush
    \/ NameImage(2)
    \/ \E c \in DrawInitFonts : InitFont(c)
    \/ \E c \in DrawLoadChars : LoadChar(c)
    \/ InitCmd
    \/ \E c \in OpDraws : Draw(c)

InitOp == InitWith({TRUE})

SpecOp == InitOp /\ [][NextOp]_vars

----------------------------------------------------------------------------
(* Specification of the 9P client: API calls are started, the server        *)
(* answers the messages on the wire in any order, with success or Rerror.   *)

MaxCalls == 3

\* an API call changes the client only
Call(c) ==
    /\ client.calls < MaxCalls
    /\ client' = [c EXCEPT !.calls = @ + 1]
    /\ UNCHANGED <<rendererVars, codecVars, linkVars>>

AllocFid == Call(FidPool_alloc(client).c)

\* releaseFid, called by the holder of a fid that is not bound on the server
\* and that no message on the wire names
ReleaseFid(fid) ==
    /\ fid \in client.allocated
    /\ fid \notin client.srvFids
    /\ \A m \in client.wire : m.fid # fid
    /\ Call(FidPool_release(client, fid))

WalkOpen ==
    LET a == FidPool_alloc(client)
    IN  Call(send(a.c, "walk", a.fid, [api |-> "walkOpen", step |-> "walk", fid |-> a.fid]))

Clone(fid) ==
    /\ fid \in client.allocated
    /\ LET a == FidPool_alloc(client)
       IN  Call(send(a.c, "walk", a.fid, [api |-> "clone", step |-> "walk", fid |-> a.fid]))

Clunk(fid) ==
    /\ fid \in client.allocated
    /\ Call(send(client, "clunk", fid, [api |-> "clunk", step |-> "clunk", fid |-> fid]))

\* what the server can answer with success: a walk to a fid that is not
\* bound, an open or a clunk of a fid that is; it can always answer Rerror
CanSucceed(m) ==
    IF m.kind = "walk" THEN m.fid \notin client.srvFids ELSE m.fid \in client.srvFids

\* the transport delivers the server's reply to handleMessage
Reply(m, ok) ==
    /\ m \in client.wire
    /\ ok => CanSucceed(m)
    /\ client' = handleMessage(Served(client, m, ok), m.tag, ok)
    /\ UNCHANGED <<rendererVars, codecVars, linkVars>>

ClientFids == 0 .. MaxCalls

NextClient ==
    \/ AllocFid
    \/ \E fid \in ClientFids : ReleaseFid(fid)
    \/ WalkOpen
    \/ \E fid \in ClientFids : Clone(fid)
    \/ \E fid \in ClientFids : Clunk(fid)
    \/ \E m \in client.wire : \E ok \in BOOLEAN : Reply(m, ok)

\* a client NOTAG - 1 tags after it sent the clunk of fid 0 with tag 0: every
\* later request has been answered, the clunk has not
LateClient ==
    [NewClient EXCEPT
       !.tagCounter = NOTAG - 1,
       !.pending = [k \in {0} |-> [api |-> "clunk", step |-> "clunk", fid |-> 0]],
       !.next = 1,
       !.wire = {[tag |-> 0, kind |-> "clunk", fid |-> 0, n |-> 0]},
       !.srvFids = {0},
       !.allocated = {0},
       !.sent = 1]

InitClient ==
    /\ InitRenderer({TRUE})
    /\ reader = NoReader
    /\ readOut = NoValue
    /\ builder = NoBuilder
    /\ client \in {NewClient, LateClient}
    /\ transport = NewTransport
    /\ device = NewDevice

SpecClient == InitClient /\ [][NextClient]_vars

----------------------------------------------------------------------------
(* Specification of the client over a socket that opens, closes and is      *)
(* reconnected: API calls are started in every state of the socket, and the *)
(* server answers the requests that reached it while the connection lasts.  *)

LinkWalkOpen ==
    LET a == FidPool_alloc(client)
    IN  Call(sendOver(transport, a.c, "walk", a.fid,
                      [api |-> "walkOpen", step |-> "walk", fid |-> a.fid]))

LinkRead(fid) ==
    /\ fid \in client.allocated
    /\ Call(sendOver(transport, client, "read", fid,
                     [api |-> "read", step |-> "read", fid |-> fid]))

LinkClunk(fid) ==
    /\ fid \in client.allocated
    /\ Call(sendOver(transport, client, "clunk", fid,
                     [api |-> "clunk", step |-> "clunk", fid |-> fid]))

\* the reply to m arrives on the open socket; the request a callback sends
\* goes out on the same socket
LinkReply(m, ok) ==
    /\ transport.ws = "open"
    /\ Reply(m, ok)

AnyReply == \E m \in client.wire : \E ok \in BOOLEAN : LinkReply(m, ok)

NextLink ==
    \/ Connect
    \/ Open
    \/ Close
    \/ Reconnect
    \/ LinkWalkOpen
    \/ \E fid \in ClientFids : LinkRead(fid)
    \/ \E fid \in ClientFids : LinkClunk(fid)
    \/ AnyReply

InitLink == InitWith({TRUE})

\* the server answers what it has received, the reconnect timer fires and
\* the socket it creates opens
SpecLink ==
    /\ InitLink
    /\ [][NextLink]_vars
    /\ WF_vars(AnyReply)
    /\ WF_vars(Reconnect)
    /\ WF_vars(Open)

----------------------------------------------------------------------------
(* Properties *)

\* a step of the loop that ran a handler to its end
Executed(ops) == Running /\ last'.op \in ops /\ result' # "threw"

\* C1: after a drawing opcode has executed, the renderer's current operator
\* is SoverD, whatever operator setop had installed and whichever path the
\* handler took.  (A drawing opcode that fails at the lookup of its images
\* has not executed; it ends the buffer.)
C1_OperatorConsumed == [][Executed(DrawingOps) => currentOp' = SoverD]_vars

\* C1 witness: a string with background drawn from cached glyphs has returned
\* its point, while setop had installed another operator before it
C1_Witness ==
    /\ last.op = "stringbg" /\ last.opWas # SoverD
    /\ phase = "running" /\ Len(responses) = 8
    /\ 1 \in DOMAIN fonts /\ fontHasLoadedGlyphs(fonts[1])
    /\ currentOp = SoverD

\* C2: every image's clipr lies inside its r
C2_ClipInsideR == \A i \in DOMAIN images : RectIn(images[i].clipr, images[i].r)

\* C3: every image's surface, and its recorded width and height, have the
\* dimensions of its r
C3_SurfaceMatchesR ==
    \A i \in DOMAIN images :
        LET img == images[i]
            cv == canvases[getContext(img)]
        IN  /\ cv.w = rectWidth(img.r) /\ cv.h = rectHeight(img.r)
            /\ img.width = rectWidth(img.r) /\ img.height = rectHeight(img.r)

\* id 0 is in the image table and draws on the screen canvas
DisplayPresent == Has(0) /\ getContext(images[0]) = 0 /\ 0 \in DOMAIN canvases

\* C4: id 0 is always present in the image table and denotes the screen
\* canvas, and a free of id 0 changes neither the image table nor the font
\* table
C4_DisplayKept ==
    /\ []DisplayPresent
    /\ [][Executed({"free"}) /\ last'.a.id = 0 => images' = images /\ fonts' = fonts]_vars

\* C4 witness: free 0 has been executed while other images and a font exist
C4_Witness ==
    /\ last.op = "free" /\ last.a.id = 0 /\ result = "returned"
    /\ DOMAIN images = {0, 1, 2} /\ DOMAIN fonts = {1}

\* C5: an alloc, under whatever id, leaves image 0 with the r, clipr, channel,
\* replication flag and pixels it had
C5_AllocKeepsDisplay ==
    [][Executed({"alloc"}) =>
         /\ images'[0].r = images[0].r
         /\ images'[0].clipr = images[0].clipr
         /\ images'[0].chan = images[0].chan
         /\ images'[0].repl = images[0].repl
         /\ canvases'[0] = canvases[0]]_vars

\* C6: every id with a font also has an image
C6_FontHasImage == DOMAIN fonts \subseteq DOMAIN images

\* C6 witness: a free has been executed and a font is registered
C6_Witness == last.op = "free" /\ DOMAIN fonts # {} /\ result = "returned"

\* the rectangles recorded for image 0 before the flush that was dispatched last
RecordedForDisplay ==
    {last.a.log[i].r : i \in {j \in 1 .. Len(last.a.log) : last.a.log[j].id = 0}}

\* e contains every rectangle of S and each of its edges is the edge of one
SmallestAround(e, S) ==
    /\ \A r \in S : RectIn(r, e)
    /\ \E r \in S : r.minX = e.minX
    /\ \E r \in S : r.minY = e.minY
    /\ \E r \in S : r.maxX = e.maxX
    /\ \E r \in S : r.maxY = e.maxY

\* C7: a flush hands the host the smallest rectangle that contains every
\* refresh rectangle recorded for id 0 since the previous flush, nothing
\* recorded earlier, and leaves the accumulator empty
C7_FlushReportsHull ==
    last.op = "flush" =>
        /\ refreshRects = <<>>
        /\ RecordedForDisplay # {} =>
              \E e \in emitted : SmallestAround(e, RecordedForDisplay)

\* C7 witness: a flush after two different rectangles were recorded for id 0,
\* neither of which is the rectangle reported
C7_Witness ==
    /\ last.op = "flush"
    /\ Cardinality(RecordedForDisplay) = 2
    /\ \E e \in emitted : e \notin RecordedForDisplay

\* a flush was dispatched last, after an earlier flush and with no drawing
\* opcode between the two
SecondFlush == last.op = "flush" /\ last.a.second /\ ~last.a.drew

C9_EmptyDrawNoRefresh ==
    [][Executed({"draw"}) /\ rectIsEmpty(last'.a.r) =>
         canvases' = canvases /\ refreshRects' = refreshRects]_vars

\* C10: when a command fails, processCommands ends without a value, and no
\* further command of the buffer is dispatched
C10_FailureEndsBuffer ==
    /\ [](result = "threw" => phase = "idle" /\ returned = NoValue)
    /\ [][result = "threw" /\ result' = "threw" =>
            UNCHANGED <<phase, remaining, responses, last>>]_vars

\* C10 witness: a buffer ended on an unknown opcode with a command still to come
C10_Witness == result = "threw" /\ last.op = "unknown" /\ remaining > 1

\* C11: a command that fails leaves the image table, the font table, the
\* canvases (pixels and drawing state) and the refresh accumulator as the
\* earlier commands of the buffer left them, so that a later buffer executes
\* normally on that state
C11_FailureKeepsState ==
    [][Running /\ result' = "threw" =>
         /\ images' = images /\ fonts' = fonts
         /\ canvases' = canvases /\ refreshRects' = refreshRects]_vars

\* the image ids a dispatched command names: destination, source, mask,
\* background, font image, setclip target
NamedIds(c) ==
    IF "cut" \in DOMAIN c.a THEN {}
    ELSE CASE c.op = "draw" ->
                {c.a.id, c.a.srcId} \cup (IF c.a.maskId # 0 THEN {c.a.maskId} ELSE {})
           [] c.op \in {"line", "ellipse", "ellipsefill", "arc", "poly", "fillpoly"} ->
                {c.a.id, c.a.srcId}
           [] c.op \in {"string", "stringbg"} ->
                {c.a.id, c.a.srcId}
                    \cup (IF c.a.hasBg /\ c.a.bgId # 0 THEN {c.a.bgId} ELSE {})
           [] c.op \in {"load", "loadcompressed", "unload", "setclip", "initfont"} ->
                {c.a.id}
           [] c.op = "loadchar" -> {c.a.id, c.a.srcId}
           [] OTHER -> {}

\* C12: every opcode that names an image id absent from the image table
\* fails, which ends the buffer
C12_UnknownImageFails ==
    [][Running /\ ~(NamedIds(last') \subseteq DOMAIN images) => result' = "threw"]_vars

\* a string or stringbg has executed on a registered font
StringOnFont ==
    /\ Executed({"string", "stringbg"})
    /\ last'.a.fontId \in DOMAIN fonts

\* C13: a string that contains a glyph index >= n of its font, and a loadchar
\* whose index is >= n, fail
C13_IndexOutOfRangeFails ==
    [][/\ Running
       /\ last'.op \in {"string", "stringbg", "loadchar"}
       /\ "cut" \notin DOMAIN last'.a
       /\ (IF last'.op = "loadchar" THEN last'.a.id ELSE last'.a.fontId) \in DOMAIN fonts
       /\ IF last'.op = "loadchar"
          THEN last'.a.index >= fonts[last'.a.id].n
          ELSE \E i \in 1 .. Len(last'.a.indices) :
                   last'.a.indices[i] >= fonts[last'.a.fontId].n
       => result' = "threw"]_vars

\* the advances loadchar stored for the indices, summed
RECURSIVE StoredAdvance(_, _)
StoredAdvance(font, indices) ==
    IF indices = <<>> THEN 0
    ELSE font.chars[Head(indices) + 1].width + StoredAdvance(font, Tail(indices))

\* C17: a string whose indices all have a glyph stored by loadchar returns
\* the end point (p.x + the sum of the stored widths, p.y)
C17_PenAdvancesByStoredWidth ==
    [][/\ StringOnFont
       /\ \A i \in 1 .. Len(last'.a.indices) :
             /\ last'.a.indices[i] < fonts[last'.a.fontId].n
             /\ fonts[last'.a.fontId].chars[last'.a.indices[i] + 1].width > 0
       => responses' = responses \o
             encodePoint(Pt(last'.a.p.x + StoredAdvance(fonts[last'.a.fontId],
                                                         last'.a.indices),
                            last'.a.p.y))]_vars

\* index idx of font is an empty slot: advance 0, or a sentinel x that is not
\* beyond its own x
EmptySlot(font, idx) ==
    /\ idx < font.n
    /\ \/ font.chars[idx + 1].width = 0
       \/ font.chars[idx + 2].x <= font.chars[idx + 1].x

\* C18: a string rendered from the glyph cache whose indices are all empty
\* slots draws nothing and returns its point p unchanged
C18_EmptySlotNoAdvance ==
    [][/\ StringOnFont
       /\ ~useFontFallback \/ fontHasLoadedGlyphs(fonts[last'.a.fontId])
       /\ \A i \in 1 .. Len(last'.a.indices) :
             EmptySlot(fonts[last'.a.fontId], last'.a.indices[i])
       => /\ responses' = responses \o encodePoint(last'.a.p)
          /\ canvases' = canvases]_vars

\* C19: with the fallback enabled, a string takes the fallback path exactly
\* when no font is registered for its font id or no entry of the font's
\* table has a non-zero width
C19_FallbackIffNoGlyph ==
    [][Executed({"string", "stringbg"}) /\ useFontFallback =>
         (refreshLog'[Len(refreshLog')].from = "fallback"
            <=> \/ last'.a.fontId \notin DOMAIN fonts
                \/ \A k \in DOMAIN fonts[last'.a.fontId].chars :
                       fonts[last'.a.fontId].chars[k].width = 0)]_vars

\* C14: a read primitive that returns has taken its bytes from inside the
\* command buffer the reader was given: the read offset never passes the
\* end of the view, also when the view lies inside a larger array
C14_ReadsStayInBuffer ==
    \A g \in readOut : g.ok => reader.offset <= reader.len

\* C20: the point list cmdPoly / cmdFillPoly decode from the bytes of the poly /
\* fillPoly builder is the list the builder was given
C20_PolyPointsRoundTrip ==
    \A g \in readOut : builder.data # <<>> => g.ok /\ g.v = builder.pts

\* a decoded list of two points: the first in the three-byte form with a
\* negative coordinate, the second in the one-byte form with a negative delta
C20_Witness ==
    \E g \in readOut :
        /\ g.ok /\ g.v = builder.pts
        /\ Len(builder.pts) = 2
        /\ Len(builder.data) = 39
        /\ builder.pts[1].x < -64
        /\ builder.pts[2].y < builder.pts[1].y

\* the opcodes that answer
RespondingOps == {"string", "stringbg", "load", "loadcompressed", "unload", "init"}

\* C15: every executed command leaves the bytes answered so far in place and
\* puts its own answer, if it has one, behind them; the commands that answer
\* are string, string with background, load, unload and init; the slice
\* processCommands returns is the bytes collected in that order
C15_ResponsesInCommandOrder ==
    [][/\ Running /\ result' # "threw" =>
            /\ Len(responses') >= Len(responses)
            /\ SubSeq(responses', 1, Len(responses)) = responses
            /\ Len(responses') > Len(responses) <=> last'.op \in RespondingOps
       /\ phase = "running" /\ result' = "returned" => returned' = {responses}]_vars

\* a buffer of a string and a load has returned: twelve bytes, the answer of
\* the load behind the point of the string
C15_Witness ==
    /\ result = "returned"
    /\ last.op = "load"
    /\ \E r \in returned : Len(r) = 12 /\ SubSeq(r, 9, 12) = encodeLong(4)

\* C16: the answer of a load, raw or compressed, is the number of data bytes
\* the command read from the buffer
C16_LoadAnswersBytesRead ==
    [][Executed({"load", "loadcompressed"}) =>
           responses' = responses \o encodeLong(Len(last'.a.data))]_vars

\* the k delta-coords that start at byte pos of buf, as [abs, val]: the
\* three-byte form is an absolute value, the one-byte form a signed delta
RECURSIVE CoordTokens(_, _, _)
CoordTokens(buf, pos, k) ==
    IF k = 0 THEN <<>>
    ELSE LET b == buf[pos + 1]
             u == (b - 128) + 128 * buf[pos + 2] + 32768 * buf[pos + 3]
         IN  IF b >= 128
             THEN << [abs |-> TRUE, val |-> IF u >= 4194304 THEN u - 8388608 ELSE u] >>
                  \o CoordTokens(buf, pos + 3, k - 1)
             ELSE << [abs |-> FALSE, val |-> IF b >= 64 THEN b - 128 ELSE b] >>
                  \o CoordTokens(buf, pos + 1, k - 1)

\* coordinate number i on an axis (1 = x, 2 = y): an absolute value as it
\* stands, a delta added to coordinate i - 1 of the same axis, 0 before the first
RECURSIVE AxisValue(_, _, _)
AxisValue(toks, axis, i) ==
    IF i = 0 THEN 0
    ELSE LET t == toks[2 * (i - 1) + axis]
         IN  IF t.abs THEN t.val ELSE AxisValue(toks, axis, i - 1) + t.val

\* the n[2] field of the command that starts at byte from of the buffer
PolyCount(from) == reader.buf[from + 6] + 256 * reader.buf[from + 7]

PolyTokens(from) == CoordTokens(reader.buf, from + 31, 2 * (PolyCount(from) + 1))

\* C21: poly and fillpoly decode n+1 points; each axis has its own seed, 0 at
\* the start of every command's point array; a one-byte delta is added to
\* the previous coordinate of its axis, a three-byte value ignores the seed
C21_PerAxisSeeds ==
    \A g \in readOut :
        g.op \in {"poly", "fillpoly"} /\ builder = NoBuilder =>
            /\ g.ok
            /\ Len(g.v) = PolyCount(g.from) + 1
            /\ \A i \in 1..Len(g.v) :
                   /\ g.v[i].x = AxisValue(PolyTokens(g.from), 1, i)
                   /\ g.v[i].y = AxisValue(PolyTokens(g.from), 2, i)

\* the second command of a buffer has been decoded: its first point is two
\* one-byte deltas (so it shows the seeds it started from), its second point
\* a one-byte delta on x and an absolute y
C21_Witness ==
    \E g \in readOut :
        /\ g.ok /\ g.op \in {"poly", "fillpoly"} /\ builder = NoBuilder
        /\ g.from > 0
        /\ Len(g.v) = 2
        /\ ~PolyTokens(g.from)[1].abs /\ ~PolyTokens(g.from)[2].abs
        /\ ~PolyTokens(g.from)[3].abs /\ PolyTokens(g.from)[4].abs
        /\ g.v[1] = Pt(1, -1)
        /\ g.v[2].x = 0

\* C22: an unload that follows a raw load of the same rectangle of the same
\* image, the load having carried exactly the bytes of the rectangle at the
\* image's depth, answers the bytes that were loaded
C22_LoadUnloadRoundTrip ==
    [][/\ Executed({"unload"})
       /\ last.op = "load"
       /\ last.a.id \in DOMAIN images
       /\ last.a.id = last'.a.id /\ last.a.r = last'.a.r
       /\ RectIn(last.a.r, images[last.a.id].r)
       /\ 8 * Len(last.a.data)
            = rectWidth(last.a.r) * rectHeight(last.a.r) * channelDepth(images[last.a.id].chan)
       => responses' = responses \o last.a.data]_vars

\* the expansion of a command stream: c >= 128 copies the next 1 + c - 128
\* bytes (as many as there are), c < 128 repeats the next byte 1 + c times
RECURSIVE Expansion(_)
Expansion(data) ==
    IF data = <<>> THEN <<>>
    ELSE LET c == Head(data)
             rest == Tail(data)
         IN  IF c >= 128
             THEN LET k == Min2(1 + c - 128, Len(rest))
                  IN  SubSeq(rest, 1, k) \o Expansion(SubSeq(rest, k + 1, Len(rest)))
             ELSE IF rest = <<>> THEN <<>>
             ELSE [i \in 1..(1 + c) |-> Head(rest)] \o Expansion(Tail(rest))

\* the whole number of bytes of one row
Stride(width, chan) == (width * channelDepth(chan) + 7) \div 8

\* C23: the decoder's output has at most rows x stride bytes, and it agrees
\* with the expansion of the command stream on the first rows x stride bytes
\* of that expansion
C23_RleOutputIsRaster ==
    \A g \in readOut :
        g.op = "decompress" =>
            LET want == g.height * Stride(g.width, g.chan)
                exp == Expansion(reader.buf)
            IN  /\ Len(g.v) <= want
                /\ \A i \in 1..Min2(want, Len(exp)) : g.v[i] = exp[i]

\* the pixel of a replicated source that belongs at destination point (x, y)
\* of a draw into r with source point sp
ReplPixel(src, r, sp, x, y) ==
    PixelAt(canvases[getContext(src)],
            (x - r.minX + sp.x - src.r.minX) % rectWidth(src.r),
            (y - r.minY + sp.y - src.r.minY) % rectHeight(src.r))

\* C24: an unmasked draw from a replicated source composes, at every pixel
\* of r on the destination, the source pixel at the offset taken modulo the
\* source's extent
C24_ReplicatedSourceTiles ==
    [][/\ Executed({"draw"})
       /\ last'.a.maskId = 0
       /\ images[last'.a.srcId].repl
       /\ rectWidth(images[last'.a.srcId].r) > 0
       /\ rectHeight(images[last'.a.srcId].r) > 0
       => LET dst == images[last'.a.id]
              src == images[last'.a.srcId]
              key == getContext(dst)
              r == last'.a.r
          IN  \A p \in DOMAIN canvases[key].px :
                  LET x == p[1] + dst.r.minX
                      y == p[2] + dst.r.minY
                  IN  /\ x >= r.minX /\ x < r.maxX /\ y >= r.minY /\ y < r.maxY
                      /\ x >= dst.clipr.minX /\ x < dst.clipr.maxX
                      /\ y >= dst.clipr.minY /\ y < dst.clipr.maxY
                      => canvases'[key].px[p]
                           = Composite(CompositeOf(last'.opWas),
                                       ReplPixel(src, r, last'.a.sp, x, y),
                                       canvases[key].px[p])]_vars

\* C25: a drawing opcode leaves every pixel of its destination that lies
\* outside the destination's clip rectangle as it was
C25_ClipRectangleHonoured ==
    [][Executed(DrawingOps) =>
           LET dst == images[last'.a.id]
               key == getContext(dst)
           IN  \A p \in DOMAIN canvases[key].px :
                   LET x == p[1] + dst.r.minX
                       y == p[2] + dst.r.minY
                   IN  ~(/\ x >= dst.clipr.minX /\ x < dst.clipr.maxX
                         /\ y >= dst.clipr.minY /\ y < dst.clipr.maxY)
                       => canvases'[key].px[p] = canvases[key].px[p]]_vars

\* C27: a command that changes pixels of the screen canvas adds to the
\* refresh accumulator a rectangle that holds every pixel it changed
C27_DisplayChangeRecorded ==
    [][Running /\ canvases'[0].px # canvases[0].px =>
           /\ Len(refreshRects') = Len(refreshRects) + 1
           /\ \A p \in DOMAIN canvases[0].px :
                  canvases'[0].px[p] # canvases[0].px[p] =>
                      LET rr == refreshRects'[Len(refreshRects')]
                      IN  /\ p[1] >= rr.minX /\ p[1] < rr.maxX
                          /\ p[2] >= rr.minY /\ p[2] < rr.maxY]_vars

\* C28: no two T-messages waiting for their reply carry the same tag
C28_OutstandingTagsDistinct ==
    \A a \in client.wire : \A b \in client.wire : a.tag = b.tag => a = b

\* C29: the fid FidPool.alloc hands out, to allocFid, walkOpen or clone, is not
\* in use: it is neither allocated and unreleased nor bound on the server
C29_FreshFidNotInUse ==
    \A h \in client.handout : ~h.inUse

\* loadchar found its font and an index below the font's n, and returned
AcceptedLoadChar ==
    /\ Executed({"loadchar"})
    /\ last'.a.id \in DOMAIN fonts
    /\ last'.a.index < fonts[last'.a.id].n

\* C26: every font's glyph table has n + 1 entries, all zero right after
\* initfont; initfont sets the height to the ascent, an accepted loadchar
\* raises it to its r.max.y if that is larger, and nothing else changes it,
\* so that the height is the maximum of the ascent and of r.max.y of the
\* loadchars accepted since initfont, and never decreases between two initfonts
C26_GlyphTableAndHeight ==
    [][/\ \A f \in DOMAIN fonts' : DOMAIN fonts'[f].chars = 1 .. (fonts'[f].n + 1)
       /\ Executed({"initfont"}) =>
             /\ last'.a.id \in DOMAIN fonts'
             /\ fonts'[last'.a.id].n = last'.a.n
             /\ fonts'[last'.a.id].height = last'.a.ascent
             /\ fonts'[last'.a.id].ascent = last'.a.ascent
             /\ \A k \in DOMAIN fonts'[last'.a.id].chars :
                    fonts'[last'.a.id].chars[k] = ZeroChar
       /\ \A f \in DOMAIN fonts \cap DOMAIN fonts' :
             ~(Executed({"initfont"}) /\ last'.a.id = f) =>
                /\ fonts'[f].n = fonts[f].n
                /\ fonts'[f].ascent = fonts[f].ascent
                /\ fonts'[f].height >= fonts[f].ascent
                /\ fonts'[f].height =
                      IF AcceptedLoadChar /\ last'.a.id = f /\ last'.a.r.maxY > fonts[f].height
                      THEN last'.a.r.maxY
                      ELSE fonts[f].height]_vars

\* C26 witness: a loadchar of a glyph ending at row 1 was accepted by a font
\* of ascent 2 that had accepted a glyph ending at row 3: the height is 3
C26_Witness ==
    /\ last.op = "loadchar"
    /\ result # "threw"
    /\ 1 \in DOMAIN fonts
    /\ last.a.index < fonts[1].n
    /\ last.a.r.maxY = 1
    /\ fonts[1].chars[last.a.index + 1].bottom = 1
    /\ fonts[1].ascent = 2
    /\ fonts[1].height = 3
    /\ DOMAIN fonts[1].chars = 1 .. 3

\* C30: the first drawing opcode after a setop is dispatched with the operator
\* the setop installed, whatever non-drawing opcodes and buffer boundaries lie
\* in between, and a drawing opcode that is not the first one after a setop
\* composes with SoverD.  (last.pending holds the operator of a setop that no
\* drawing opcode has followed yet.)
C30_OperatorUsedOnce ==
    [][Running /\ last'.op \in DrawingOps =>
         /\ \A o \in last.pending : last'.opWas = o
         /\ last.pending = {} /\ result' # "threw" => last'.opWas = SoverD]_vars

\* the offset of the k-th command in the bytes the builders wrote
RECURSIVE BuiltOffset(_, _)
BuiltOffset(cmds, k) ==
    IF k <= 1 THEN 0 ELSE BuiltOffset(cmds, k - 1) + Len(DrawProtocol(cmds[k - 1]))

\* the value a handler has read for an argument of the builder: a flag the
\* handler keeps as a byte stands for the boolean, a byte the handler sign-
\* extends later stands for the signed value
SameValue(c, f, v) ==
    IF f = "inFlag" THEN v[f] = (IF c[f] THEN 1 ELSE 0)
    ELSE IF f = "left" THEN (IF v[f] > 127 THEN v[f] - 256 ELSE v[f]) = c[f]
    ELSE v[f] = c[f]

NoLoadIn(cmds) == \A i \in 1 .. Len(cmds) : cmds[i].cmd \notin {"load", "loadCompressed"}

\* C31: the k-th opcode processCommands dispatches on the concatenation of
\* builder commands without a load is the opcode of the k-th command, read at
\* the offset where its builder's bytes start; its handler reads the values the
\* builder was given and stops where the bytes of its builder end
C31_BuildersDecodeBack ==
    \A g \in readOut :
        NoLoadIn(builder.cmds) =>
            /\ g.k <= Len(builder.cmds)
            /\ g.ok
            /\ g.op = OpcodeOf(builder.cmds[g.k].cmd)
            /\ g.from = BuiltOffset(builder.cmds, g.k)
            /\ reader.offset = BuiltOffset(builder.cmds, g.k + 1)
            /\ \A f \in DOMAIN builder.cmds[g.k] \ {"cmd"} :
                  /\ f \in DOMAIN g.v
                  /\ SameValue(builder.cmds[g.k], f, g.v)

IsLoad(g) == g.op \in {DrawCmd.Load, DrawCmd.LoadCompressed}

CutShort(g) ==
    /\ g.k <= Len(builder.cmds)
    /\ g.from = BuiltOffset(builder.cmds, g.k)
    /\ g.from + ParamLen(builder.cmds[g.k]) > reader.len

\* C36: a command whose parameters are cut short by the end of the buffer
\* has no effect: the turn of the loop that dispatches it leaves the images,
\* the fonts, the canvases, the operator and the refresh accumulator as
\* they were.
C36_CutCommandHasNoEffect ==
    [][\A g \in readOut' :
          readOut' # readOut /\ CutShort(g) => UNCHANGED storeVars]_vars

\* the messages of stream that have arrived whole when n bytes have
RECURSIVE WholeMessages(_, _)
WholeMessages(stream, n) ==
    IF stream = <<>> \/ Len(stream[1]) > n THEN 0
    ELSE 1 + WholeMessages(Tail(stream), n - Len(stream[1]))

\* C37: on a connection that carries well-formed messages, whatever the
\* chunks, onMessage has been called once for each message that has arrived
\* whole, in the order of the stream and with the bytes of the message, and
\* the bytes of the message that has arrived in part are kept.
C37_OneCallPerMessage ==
    transport.conn = 1 /\ transport.ws = "open" =>
        LET arrived == Len(Flatten(transport.stream)) - Len(transport.inFlight)
            whole == WholeMessages(transport.stream, arrived)
        IN  /\ transport.delivered = SubSeq(transport.stream, 1, whole)
            /\ transport.pendingData =
                  SubSeq(Flatten(transport.stream),
                         StreamOffset(transport.stream, whole + 1) + 1, arrived)

C37_Witness ==
    /\ transport.conn = 1
    /\ transport.ws = "open"
    /\ transport.sizeCut
    /\ Len(transport.stream) = 2
    /\ transport.delivered = transport.stream
    /\ transport.inFlight = <<>>

\* C38: on a connection made by the reconnect timer, the first message
\* handed to onMessage is the first message the server sent on that
\* connection.
C38_FramedFromNewBytes ==
    transport.conn > 1 /\ transport.delivered # <<>> =>
        transport.delivered[1] = transport.stream[1]

\* the tags the client of the link specification can hand out
LinkTags == 0 .. (2 * MaxCalls)

\* the last connection explored has closed: the run goes no further
LinkEnded == transport.conn = MaxConns /\ transport.ws = "closed"

\* C39: every request of the client is settled in the end, also when the
\* socket closes and is reconnected before the response: a callback stored in
\* pending for a request that was sent is taken out of it again, in every
\* run that does not end on a closed socket.
C39_EveryRequestSettled ==
    \A t \in LinkTags :
        (t \in DOMAIN client.pending /\ t \notin client.threw)
            ~> (t \notin DOMAIN client.pending \/ LinkEnded)

\* C40: a request whose transport.send threw because the socket was not
\* open has no entry under its tag in pending.
C40_NoEntryAfterThrow ==
    \A t \in client.threw : t \notin DOMAIN client.pending

\* C33: when sendCommands reads the response, the whole command buffer has
\* been written to the data file, whatever its length.
C33_WholeBufferWritten ==
    device.d.at \in {"reading", "done"} => device.d.wrote = device.d.len

\* C34: ConsDevice.write terminates: a write that awaits an Rwrite comes to
\* its end, for every msize and every count the server acknowledges.
C34_WriteTerminates ==
    (device.w.at = "awaiting") ~> (device.w.at # "awaiting")

\* C35: after startReading(N) at most N console reads are outstanding, and
\* no read is issued while the reads are stopped.
C35_PipelineDepthKept ==
    /\ [](device.depth > 0 => device.awaiting <= device.depth)
    /\ [][~device.reading /\ ~device'.reading => device'.awaiting <= device.awaiting]_vars


====
